---------------------------- MODULE Spec2Model ----------------------------
(***************************************************************************)
(* A model of netlink-rs: the netlink socket engine (src/src/core/socket.rs) *)
(* on top of the message codec (src/src/core/message.rs, pack.rs), the       *)
(* generic-netlink family resolver (src/src/generic.rs), the attribute codec *)
(* (src/src/core/attribute.rs) and the enums of src/src/core/helpers.rs.     *)
(*                                                                         *)
(* Buffers are sequences of bytes (0..255); a cursor `pos` is a 0-based     *)
(* offset as in the Rust code.  Multi-byte integers are laid out low byte   *)
(* first (NativeEndian on the little-endian hosts the repository's tests    *)
(* are written for).  usize values that wrapped below zero in a build       *)
(* without overflow checks are represented by the negative integer v - 2^64.*)
(***************************************************************************)
EXTENDS Integers, Sequences, FiniteSets, TLC

VARIABLES
    sequence_next,  \* Socket.sequence_next
    sent,           \* Socket.sent: sequence number -> MessageMode
    queue,          \* the kernel's receive queue of the socket (datagrams not yet read)
    requests,       \* requests handed to the kernel by system::send and not yet answered
    log,            \* history: the sequence numbers written into outgoing headers, in order
    result          \* the outcome of the last call on the socket

vars == <<sequence_next, sent, queue, requests, log, result>>

-----------------------------------------------------------------------------
(* Bounds of the model *)

MaxSends == 2   \* send_message calls that reach the sequence allocation
MaxResolves == 1   \* calls of the resolvers of generic.rs

-----------------------------------------------------------------------------
(* Program constants *)

NLMSG_NOOP == 1
NLMSG_ERROR == 2
NLMSG_DONE == 3

HEADER_SIZE == 16

\* FamilyId::Control, the generic netlink controller
GENL_ID_CTRL == 16

\* errno values a failed system::send or system::receive_message may report
\* (ENOBUFS, ECONNREFUSED); 0 stands for success
Errnos == {105, 111}

REQUEST == 1
MULTIPART == 2
ACKNOWLEDGE == 4
DUMP == 768

\* local.pid as filled in by get_socket_address, and a pid of some other socket
LocalPid == 7
OtherPid == LocalPid + 2

\* Socket.page_size: the size of send_buffer and receive_buffer
PageSize == 4096

MinI32 == -2147483647 - 1

Modes == {"None", "Acknowledge", "Dump"}

-----------------------------------------------------------------------------
(* Primitive codec: src/src/core/pack.rs *)

U16Bytes(v) == <<v % 256, (v \div 256) % 256>>

U32Bytes(v) ==
    <<v % 256, (v \div 256) % 256, (v \div 65536) % 256, (v \div 16777216) % 256>>

\* two's complement of a negative i32 is 2^32 + v = (2^32 - 1) - (-v - 1)
I32Bytes(v) ==
    IF v >= 0 THEN U32Bytes(v)
    ELSE LET m == U32Bytes(-(v + 1)) IN [i \in 1..4 |-> 255 - m[i]]

\* u16::unpack_unchecked(&buffer[o..])
U16At(buffer, o) == buffer[o + 1] + 256 * buffer[o + 2]

\* u32::unpack_unchecked(&buffer[o..])
U32At(buffer, o) ==
    buffer[o + 1] + 256 * buffer[o + 2] + 65536 * buffer[o + 3]
        + 16777216 * buffer[o + 4]

\* i32::unpack_unchecked(&buffer[o..])
I32At(buffer, o) ==
    buffer[o + 1] + 256 * buffer[o + 2] + 65536 * buffer[o + 3]
        + 16777216 * (IF buffer[o + 4] >= 128 THEN buffer[o + 4] - 256 ELSE buffer[o + 4])

\* &buffer[o..]
SliceFrom(buffer, o) == SubSeq(buffer, o + 1, Len(buffer))

\* &buffer[..n]
SliceTo(buffer, n) == SubSeq(buffer, 1, n)

-----------------------------------------------------------------------------
(* Message codec: src/src/core/message.rs *)

\* impl Into<MessageFlags> for MessageMode
ModeFlags(mode) ==
    CASE mode = "None" -> REQUEST
      [] mode = "Acknowledge" -> REQUEST + ACKNOWLEDGE
      [] mode = "Dump" -> REQUEST + DUMP

\* bit test on a 16-bit flags value: flags & bit != 0, bit a power of two
HasBit(flags, bit) == (flags \div bit) % 2 = 1

\* MessageMode::from(MessageFlags): the mode a request's flags stand for
ModeFromFlags(flags) ==
    IF HasBit(flags, 256) \/ HasBit(flags, 512) THEN "Dump"
    ELSE IF HasBit(flags, ACKNOWLEDGE) THEN "Acknowledge"
    ELSE "None"

\* MessageFlags::from_bits(bits).unwrap_or(MessageFlags::empty()): from_bits is
\* None when a bit outside REQUEST | MULTIPART | ACKNOWLEDGE | DUMP is set
FlagsFromBits(bits) ==
    IF \E b \in {8, 16, 32, 64, 128, 1024, 2048, 4096, 8192, 16384, 32768} : HasBit(bits, b)
    THEN 0 ELSE bits

align_to(len, to) == LET t == len + to - 1 IN t - (t % to)

netlink_align(len) == align_to(len, 4)

netlink_padding(len) == netlink_align(len) - len

\* Header::pack_unchecked
HeaderPack(h) ==
    U32Bytes(h.length) \o U16Bytes(h.identifier) \o U16Bytes(h.flags)
        \o U32Bytes(h.sequence) \o U32Bytes(h.pid)

\* Header::unpack_unchecked(&buffer[o..])
HeaderUnpack(buffer, o) ==
    [length |-> U32At(buffer, o), identifier |-> U16At(buffer, o + 4),
     flags |-> U16At(buffer, o + 6), sequence |-> U32At(buffer, o + 8),
     pid |-> U32At(buffer, o + 12)]

\* Header::data_length: a usize subtraction, negative here when it wrapped
data_length(h) == h.length - HEADER_SIZE

\* Header::aligned_data_length
aligned_data_length(h) == netlink_align(data_length(h))

\* a check that accepts only the socket's own pid
check_pid_local(h, pid) == h.pid = pid

\* Header::check_pid
check_pid(h, pid) == h.pid = 0 \/ h.pid = pid

-----------------------------------------------------------------------------
(* Errors: src/src/errors.rs.  kind is a NetlinkErrorKind, "Os" for an        *)
(* io::Error made by from_raw_os_error (errno holds the raw value), or        *)
(* "UnexpectedEof" for the io::Error the message codec builds.                *)

NoError == [kind |-> "none", errno |-> 0]
NetlinkError(kind) == [kind |-> kind, errno |-> 0]
OsError(errno) == [kind |-> "Os", errno |-> errno]
UnexpectedEof == [kind |-> "UnexpectedEof", errno |-> 0]

NoHeader == [length |-> 0, identifier |-> 0, flags |-> 0, sequence |-> 0, pid |-> 0]

-----------------------------------------------------------------------------
(* The pending map: HashMap<u32, MessageMode> *)

EmptyMap == [k \in {} |-> "None"]

MapInsert(map, key, value) ==
    [k \in (DOMAIN map) \cup {key} |-> IF k = key THEN value ELSE map[k]]

\* a map that forgets nothing
MapKeep(map, key) == map

MapRemove(map, key) == [k \in (DOMAIN map) \ {key} |-> map[k]]

-----------------------------------------------------------------------------
(* Socket engine, receive side: src/src/core/socket.rs *)

\* a check that accepts every sequence number
check_sequence_any(map, sequence) == TRUE

\* Socket::check_sequence
check_sequence(map, sequence) ==
    IF sequence = 0 THEN TRUE ELSE sequence \in DOMAIN map

\* an engine that never expects more records for a sequence
expect_more_never(map, sequence) == FALSE

\* Socket::expect_more (the assert cannot fail after check_sequence)
expect_more(map, sequence) ==
    IF sequence = 0 THEN FALSE
    ELSE IF sequence \in DOMAIN map THEN map[sequence] # "None"
    ELSE FALSE

\* ErrorMessage::unpack(&data[pos..], header): the code field, or a failure
\* when fewer than 4 + 16 bytes follow the header
ErrorMessageUnpack(data, pos) ==
    IF Len(data) - pos < 4 + HEADER_SIZE
    THEN [ok |-> FALSE, used |-> 0, code |-> 0]
    ELSE [ok |-> TRUE, used |-> 4 + HEADER_SIZE, code |-> I32At(data, pos)]

\* -emsg.code on an i32: overflows for i32::MIN, which panics in a build with
\* overflow checks and wraps to i32::MIN in one without
NegateCode(code, checked) ==
    IF code = MinI32
    THEN [panic |-> checked, value |-> MinI32]
    ELSE [panic |-> FALSE, value |-> -code]

\* DataMessage::unpack(&data[pos..], header) (Message::unpack in socket.rs)
DataMessageUnpack(data, pos, h, checked) ==
    LET size == data_length(h)
        aligned_size == netlink_align(size)
        remaining == Len(data) - pos
    IN  IF size < 0 /\ checked
        THEN [kind |-> "panic", used |-> 0, payload |-> <<>>]
        ELSE IF aligned_size < 0 \/ remaining < aligned_size
        THEN [kind |-> "err", used |-> 0, payload |-> <<>>]
        ELSE IF size < 0
        THEN [kind |-> "panic", used |-> 0, payload |-> <<>>]
        ELSE [kind |-> "ok", used |-> aligned_size,
              payload |-> SubSeq(data, pos + 1, pos + size)]

\* one entry of the history of a receive_messages call: the record met at
\* cursor `pos`, the pending map and the number of messages decoded before it,
\* what became of it, the cursor `next` the loop goes on with, and
\* more_messages before (`was`) and after (`more`) the record
Entry(h, st, outcome, code) ==
    [header |-> h, pos |-> st.pos, next |-> st.pos, pending |-> st.sent,
     count |-> Len(st.msgs), outcome |-> outcome, code |-> code,
     was |-> st.more, more |-> st.more]

Finish(kind, err, st, entry) ==
    [kind |-> kind, err |-> err, more |-> st.more, sent |-> st.sent,
     msgs |-> st.msgs, trace |-> Append(st.trace, entry)]

\* the body of the while loop of Socket::unpack_data, from cursor st.pos
RECURSIVE unpack_loop(_, _, _)
unpack_loop(data, checked, st) ==
    IF ~(st.pos < Len(data))
    THEN [kind |-> "ok", err |-> NoError, more |-> st.more, sent |-> st.sent,
          msgs |-> st.msgs, trace |-> st.trace]
    ELSE IF Len(data) - st.pos < HEADER_SIZE
    THEN Finish("err", NetlinkError("NotEnoughData"), st,
                Entry(NoHeader, st, "bad_header", 0))
    ELSE
    LET header == HeaderUnpack(data, st.pos)
        pos == st.pos + HEADER_SIZE
        sequence == header.sequence
        E(outcome, code) == Entry(header, st, outcome, code)
        Continue(next, outcome, code) ==
            IF next.pos = st.pos /\ next.sent = st.sent /\ next.more = st.more
               /\ next.msgs = st.msgs
            THEN Finish("hang", NoError, st, E("hang", code))
            ELSE unpack_loop(data, checked,
                             [next EXCEPT !.trace =
                                 Append(st.trace, [E(outcome, code) EXCEPT !.next = next.pos,
                                                               !.more = next.more])])
    IN  IF ~check_pid(header, LocalPid)
        THEN Finish("err", NetlinkError("InvalidValue"), st, E("bad_pid", 0))
        ELSE IF ~check_sequence(st.sent, sequence)
        THEN Finish("err", NetlinkError("InvalidValue"), st, E("bad_sequence", 0))
        ELSE IF header.identifier = NLMSG_NOOP
        THEN Continue([st EXCEPT !.pos = pos], "noop", 0)
        ELSE IF header.identifier = NLMSG_ERROR
        THEN LET removed == [st EXCEPT !.sent = MapRemove(st.sent, sequence)]
                 emsg == ErrorMessageUnpack(data, pos)
                 errno == NegateCode(emsg.code, checked)
             IN  IF ~emsg.ok
                 THEN Finish("err", UnexpectedEof, removed, E("bad_error", 0))
                 ELSE IF emsg.code # 0
                 THEN IF errno.panic
                      THEN Finish("panic", NoError, removed, E("panic", emsg.code))
                      ELSE Finish("err", OsError(errno.value), removed,
                                  E("error", emsg.code))
                 ELSE Continue([removed EXCEPT !.pos = pos + emsg.used,
                                               !.more = FALSE], "ack", 0)
        ELSE IF header.identifier = NLMSG_DONE
        THEN LET removed == [st EXCEPT !.sent = MapRemove(st.sent, sequence)]
             IN  IF data_length(header) < 0 /\ checked
                 THEN Finish("panic", NoError, removed, E("panic", 0))
                 ELSE Continue([removed EXCEPT !.pos = pos + aligned_data_length(header),
                                               !.more = FALSE], "done", 0)
        ELSE LET flags == FlagsFromBits(header.flags)
                 more == HasBit(flags, MULTIPART) \/ expect_more(st.sent, sequence)
                 m == DataMessageUnpack(data, pos, header, checked)
             IN  IF m.kind = "panic"
                 THEN Finish("panic", NoError, st, E("panic", 0))
                 ELSE IF m.kind = "err"
                 THEN Finish("err", UnexpectedEof, st, E("bad_data", 0))
                 ELSE Continue([st EXCEPT !.pos = pos + m.used, !.more = more,
                                          !.msgs = Append(st.msgs,
                                              [header |-> header, data |-> m.payload])],
                               "data", 0)

\* Socket::unpack_data(bytes, &mut messages)
unpack_data(data, checked, map, msgs, trace) ==
    unpack_loop(data, checked,
                [pos |-> 0, more |-> FALSE, sent |-> map, msgs |-> msgs, trace |-> trace])

-----------------------------------------------------------------------------
(* The receive queue and the wire: what the kernel (or another sender) has   *)
(* queued on the socket.  A queue item is a datagram, given by the records   *)
(* it carries, or a pending socket error that the next read reports.         *)

Record(length, identifier, flags, sequence, pid, body) ==
    [header |-> [length |-> length, identifier |-> identifier, flags |-> flags,
                 sequence |-> sequence, pid |-> pid],
     body |-> body]

Datagram(recs) == [kind |-> "dgram", recs |-> recs, errno |-> 0]
SocketError(errno) == [kind |-> "oserr", recs |-> <<>>, errno |-> errno]

RECURSIVE Wire(_)
Wire(recs) ==
    IF recs = <<>> THEN <<>>
    ELSE HeaderPack(Head(recs).header) \o Head(recs).body \o Wire(Tail(recs))

\* Socket::receive_bytes with system::receive_message: one non-blocking read of
\* at most page_size bytes; EAGAIN (nothing queued) is reported as zero bytes
receive_bytes(q) ==
    IF q = <<>>
    THEN [ok |-> TRUE, data |-> <<>>, errno |-> 0, rest |-> q]
    ELSE IF Head(q).kind = "oserr"
    THEN [ok |-> FALSE, data |-> <<>>, errno |-> Head(q).errno, rest |-> Tail(q)]
    ELSE LET wire == Wire(Head(q).recs)
         IN  [ok |-> TRUE,
              data |-> IF Len(wire) > PageSize THEN SliceTo(wire, PageSize) ELSE wire,
              errno |-> 0, rest |-> Tail(q)]

\* the outcome of a call: kind is "ok", "err", "panic" (the call unwinds) or
\* "hang" (the call never returns)
Outcome(op, kind, err, value, msgs, data, header, trace, reads) ==
    [op |-> op, kind |-> kind, err |-> err, value |-> value, msgs |-> msgs,
     data |-> data, header |-> header, trace |-> trace, reads |-> reads,
     input |-> <<>>, pending |-> EmptyMap, first |-> 0,
     found |-> <<>>, batches |-> <<>>]

\* the outcome with the history of the call: the queue, the pending map and the
\* next sequence number it met
Called(out, q, map, sequence) ==
    [out EXCEPT !.input = q, !.pending = map, !.first = sequence]

\* Socket::receive
receive(q) ==
    LET r == receive_bytes(q)
    IN  [queue |-> r.rest,
         out |-> IF r.ok
                 THEN Outcome("receive", "ok", NoError, Len(r.data), <<>>, r.data,
                              NoHeader, <<>>, 1)
                 ELSE Outcome("receive", "err", OsError(r.errno), 0, <<>>, <<>>,
                              NoHeader, <<>>, 1)]

\* what a receive_messages call returns after `reads` calls of receive_bytes
Returned(rest, map, kind, err, msgs, trace, reads) ==
    [queue |-> rest, sent |-> map,
     out |-> Outcome("receive_messages", kind, err, 0, msgs, <<>>, NoHeader, trace, reads)]

\* the while loop of Socket::receive_messages; reads counts receive_bytes calls
RECURSIVE receive_loop(_, _, _, _, _, _)

\* the loop body after unpack_data returned u
unpacked(u, rest, checked, reads) ==
    IF u.kind # "ok"
    THEN Returned(rest, u.sent, u.kind, u.err, <<>>, u.trace, reads)
    ELSE IF u.more
    THEN receive_loop(rest, checked, u.sent, u.msgs, u.trace, reads)
    ELSE Returned(rest, u.sent, "ok", NoError, u.msgs, u.trace, reads)

\* the loop body after receive_bytes returned r
received(r, checked, map, msgs, trace, reads) ==
    IF ~r.ok
    THEN Returned(r.rest, map, "err", OsError(r.errno), <<>>, trace, reads)
    ELSE IF Len(r.data) = 0
    THEN Returned(r.rest, map, "ok", NoError, msgs, trace, reads)
    ELSE unpacked(unpack_data(r.data, checked, map, msgs, trace), r.rest, checked, reads)

receive_loop(q, checked, map, msgs, trace, reads) ==
    received(receive_bytes(q), checked, map, msgs, trace, reads + 1)

\* Socket::receive_messages
receive_messages(q, checked, map) == receive_loop(q, checked, map, <<>>, <<>>, 0)

-----------------------------------------------------------------------------
(* Socket engine, send side *)

\* a counter that skips a number on every increment
NextSequenceSkip(sequence) == sequence + 2

\* self.sequence_next += 1
NextSequence(sequence) == sequence + 1

\* Socket::send_message: payload is [message_type, flags, size], size the bytes
\* payload.pack writes; sys is the errno of system::send, 0 when it succeeds
send_message(sequence, map, payload, sys) ==
    IF payload.size > PageSize - HEADER_SIZE
    THEN [sequence_next |-> sequence, sent |-> map, reached |-> FALSE,
          out |-> Outcome("send", "err", NetlinkError("NotEnoughData"), 0, <<>>, <<>>,
                          NoHeader, <<>>, 0)]
    ELSE LET size == HEADER_SIZE + payload.size
             hdr == [length |-> size, identifier |-> payload.message_type,
                     flags |-> payload.flags, sequence |-> sequence, pid |-> LocalPid]
             buffer == HeaderPack(hdr)
         IN  [sequence_next |-> NextSequence(sequence),
              sent |-> MapInsert(map, sequence, ModeFromFlags(payload.flags)),
              reached |-> TRUE,
              out |-> IF sys = 0
                      THEN Outcome("send", "ok", NoError, size, <<>>, buffer,
                                   HeaderUnpack(buffer, 0), <<>>, 0)
                      ELSE Outcome("send", "err", OsError(sys), 0, <<>>,
                                   buffer, HeaderUnpack(buffer, 0), <<>>, 0)]

-----------------------------------------------------------------------------
(* State machine *)

Alive == result.kind \notin {"panic", "hang"}

Init ==
    /\ sequence_next = 1
    /\ sent = EmptyMap
    /\ queue = <<>>
    /\ requests = {}
    /\ log = <<>>
    /\ result = Outcome("new", "ok", NoError, 0, <<>>, <<>>, NoHeader, <<>>, 0)

Payloads ==
    [message_type : {GENL_ID_CTRL}, flags : {ModeFlags(m) : m \in Modes},
     size : {4, PageSize}]

\* a caller sends a request
Send(payload, sys) ==
    /\ Alive
    /\ sequence_next <= MaxSends
    /\ LET r == send_message(sequence_next, sent, payload, sys)
       IN  /\ sequence_next' = r.sequence_next
           /\ sent' = r.sent
           /\ result' = Called(r.out, queue, sent, sequence_next)
           /\ log' = IF r.reached THEN Append(log, r.out.header.sequence) ELSE log
           /\ requests' = IF r.reached /\ sys = 0
                          THEN requests \cup {HeaderUnpack(r.out.data, 0)}
                          ELSE requests
    /\ UNCHANGED queue

\* what arrives before a read: nothing, or one of `bursts` once the queue is drained
Arrivals(bursts) == {<<>>} \cup (IF queue = <<>> THEN bursts ELSE {})

\* a caller reads raw bytes
Receive(arrived) ==
    /\ Alive
    /\ LET r == receive(queue \o arrived)
       IN  /\ queue' = r.queue
           /\ result' = Called(r.out, queue \o arrived, sent, sequence_next)
    /\ UNCHANGED <<sequence_next, sent, requests, log>>

\* a caller receives messages; checked: the build has overflow checks
ReceiveMessages(arrived, checked) ==
    /\ Alive
    /\ LET r == receive_messages(queue \o arrived, checked, sent)
       IN  /\ queue' = r.queue
           /\ sent' = r.sent
           /\ result' = Called(r.out, queue \o arrived, sent, sequence_next)
    /\ UNCHANGED <<sequence_next, requests, log>>

-----------------------------------------------------------------------------
(* What arrives on the socket *)

\* a payload of two bytes, padded to the 4-byte boundary on the wire
DataBody == <<17, 85, 0, 0>>

DataRec(sequence, pid, flags) ==
    Record(HEADER_SIZE + 2, GENL_ID_CTRL, flags, sequence, pid, DataBody)

\* the end of a dump: the kernel's DONE record carries a 4-byte status
DoneRec(sequence, pid) ==
    Record(HEADER_SIZE + 4, NLMSG_DONE, MULTIPART, sequence, pid, <<0, 0, 0, 0>>)

\* an error report or (code 0) an acknowledgment: the code and the header of the
\* request it answers
ErrorRec(sequence, pid, code) ==
    Record(HEADER_SIZE + 4 + HEADER_SIZE, NLMSG_ERROR, 0, sequence, pid,
           I32Bytes(code) \o HeaderPack([length |-> HEADER_SIZE + 4,
               identifier |-> GENL_ID_CTRL, flags |-> REQUEST, sequence |-> sequence,
               pid |-> pid]))

NoopRec(pid) == Record(HEADER_SIZE, NLMSG_NOOP, 0, 0, pid, <<>>)

\* Bursts of datagrams for the requests 1 and 2 and for sequence 0 (unsolicited),
\* as the kernel sends them
KernelBursts ==
    LET D(s) == DataRec(s, LocalPid, 0)
        M(s) == DataRec(s, LocalPid, MULTIPART)
        Done(s) == DoneRec(s, LocalPid)
        Ack(s) == ErrorRec(s, LocalPid, 0)
        Err(s) == ErrorRec(s, LocalPid, -1)
    IN  { <<Datagram(<<M(1)>>)>>,
          <<Datagram(<<D(1), Done(1)>>)>>,
          <<Datagram(<<D(1)>>), Datagram(<<M(1), Done(1)>>)>>,
          <<Datagram(<<Done(1)>>)>>,
          <<Datagram(<<D(1), Ack(1)>>)>>,
          <<Datagram(<<D(1)>>), Datagram(<<Ack(1)>>)>>,
          <<Datagram(<<D(1), Err(1)>>)>>,
          <<Datagram(<<Done(1), D(1)>>)>>,
          <<Datagram(<<D(2)>>)>>,
          <<Datagram(<<D(1), Done(1)>>), Datagram(<<D(2), Ack(2)>>)>>,
          <<Datagram(<<NoopRec(0), DataRec(0, 0, 0)>>)>> }

\* Bursts of another sender, malformed datagrams and socket errors
OtherBursts ==
    { <<Datagram(<<DataRec(1, OtherPid, 0)>>)>>,
      <<Datagram(<<ErrorRec(1, OtherPid, -1)>>)>>,
      <<Datagram(<<DoneRec(2, OtherPid)>>)>>,
      <<Datagram(<<NoopRec(OtherPid)>>)>>,
      <<Datagram(<<ErrorRec(1, LocalPid, MinI32)>>)>>,
      <<Datagram(<<Record(0, NLMSG_DONE, 0, 0, 0, <<>>)>>)>>,
      <<Datagram(<<>>)>> }
    \cup {<<SocketError(e)>> : e \in Errnos}
    \cup {<<Datagram(<<DataRec(1, LocalPid, MULTIPART)>>), SocketError(e)>> : e \in Errnos}

Bursts == KernelBursts \cup OtherBursts

Next ==
    \/ \E payload \in Payloads, sys \in {0} \cup Errnos : Send(payload, sys)
    \/ \E arrived \in Arrivals(OtherBursts) : Receive(arrived)
    \/ \E arrived \in Arrivals(Bursts), checked \in BOOLEAN :
           ReceiveMessages(arrived, checked)

Spec == Init /\ [][Next]_vars

-----------------------------------------------------------------------------
(* Attribute codec: src/src/core/attribute.rs.  An attribute is a record     *)
(* [identifier, data]; a string is the sequence of its bytes.                *)

ATTRIBUTE_HEADER_SIZE == 4

\* the zero bytes that pad n bytes to the alignment
Padding(n) == [i \in 1..netlink_padding(n) |-> 0]

\* Attribute::pack: length (header included), identifier, data, padding
AttributePack(attr) ==
    U16Bytes(Len(attr.data) + ATTRIBUTE_HEADER_SIZE) \o U16Bytes(attr.identifier)
        \o attr.data \o Padding(Len(attr.data))

NoAttribute == [identifier |-> 0, data |-> <<>>]

\* Attribute::unpack_with_size; &buffer[4..length] panics when length < 4
AttributeUnpack(buffer) ==
    IF Len(buffer) < ATTRIBUTE_HEADER_SIZE
    THEN [kind |-> "err", used |-> 0, attr |-> NoAttribute]
    ELSE LET length == U16At(buffer, 0)
             identifier == U16At(buffer, 2)
             padding == netlink_padding(length)
         IN  IF Len(buffer) < length + padding
             THEN [kind |-> "err", used |-> 0, attr |-> NoAttribute]
             ELSE IF length < 4
             THEN [kind |-> "panic", used |-> 0, attr |-> NoAttribute]
             ELSE [kind |-> "ok", used |-> length + padding,
                   attr |-> [identifier |-> identifier,
                             data |-> SubSeq(buffer, 5, length)]]

\* the loop of Attribute::unpack_all: decoding stops at the first failure
RECURSIVE unpack_all_from(_, _, _)
unpack_all_from(data, pos, attrs) ==
    LET r == AttributeUnpack(SliceFrom(data, pos))
    IN  IF r.kind = "ok"
        THEN unpack_all_from(data, pos + r.used, Append(attrs, r.attr))
        ELSE [panic |-> r.kind = "panic", used |-> pos, attrs |-> attrs]

\* a decoder that stops after the first attribute
unpack_first(data) ==
    LET r == AttributeUnpack(data)
    IN  IF r.kind = "ok"
        THEN [panic |-> FALSE, used |-> r.used, attrs |-> <<r.attr>>]
        ELSE [panic |-> r.kind = "panic", used |-> 0, attrs |-> <<>>]

\* Attribute::unpack_all
unpack_all(data) == unpack_all_from(data, 0, <<>>)

\* Attribute::new_string: the bytes of the string, no terminating NUL
new_string(identifier, value) == [identifier |-> identifier, data |-> value]

\* Attribute::new for a u16 value
new_u16(identifier, value) == [identifier |-> identifier, data |-> U16Bytes(value)]

\* Attribute::as_string: the bytes before a single final NUL, else all the
\* bytes; bytes that are not UTF-8 (here: not ASCII) are an error
as_string(data) ==
    IF data # <<>> /\ data[Len(data)] = 0
       /\ \A i \in 1..(Len(data) - 1) : data[i] # 0
    THEN IF \A i \in 1..(Len(data) - 1) : data[i] < 128
         THEN [ok |-> TRUE, value |-> SliceTo(data, Len(data) - 1)]
         ELSE [ok |-> FALSE, value |-> <<>>]
    ELSE IF \A i \in 1..Len(data) : data[i] < 128
    THEN [ok |-> TRUE, value |-> data]
    ELSE [ok |-> FALSE, value |-> <<>>]

\* Attribute::as_u16
as_u16(data) ==
    IF Len(data) < 2 THEN [ok |-> FALSE, value |-> 0]
    ELSE [ok |-> TRUE, value |-> U16At(data, 0)]

\* Attribute::as_u32
as_u32(data) ==
    IF Len(data) < 4 THEN [ok |-> FALSE, value |-> 0]
    ELSE [ok |-> TRUE, value |-> U32At(data, 0)]

-----------------------------------------------------------------------------
(* Generic netlink: src/src/generic.rs.  A family is a record                *)
(* [id, name, multicast_groups], a group a record [id, name].                *)

Command_NewFamily == 1
Command_GetFamily == 3
AttributeId_FamilyId == 1
AttributeId_FamilyName == 2
AttributeId_MulticastGroups == 7
MulticastAttributeId_Name == 1
MulticastAttributeId_Id == 2

IoError(kind) == [kind |-> kind, errno |-> 0]

\* Sendable::pack of a generic Message: command, version, reserved u16, attributes
RECURSIVE pack_vec(_)
pack_vec(attrs) ==
    IF attrs = <<>> THEN <<>> ELSE AttributePack(Head(attrs)) \o pack_vec(Tail(attrs))

GenericPack(command, version, attrs) == <<command, version, 0, 0>> \o pack_vec(attrs)

\* generic Message::unpack: data[0], data[1] and &data[4..] panic on short data
GenericUnpack(data) ==
    IF Len(data) < 4
    THEN [kind |-> "panic", command |-> 0, version |-> 0, attributes |-> <<>>]
    ELSE LET a == unpack_all(SliceFrom(data, 4))
         IN  [kind |-> IF a.panic THEN "panic" ELSE "ok",
              command |-> data[1], version |-> data[2], attributes |-> a.attrs]

NoGroup == [id |-> 0, name |-> <<>>]

\* the loop of MulticastGroup::from_bytes over the attributes of one group
RECURSIVE group_loop(_, _, _, _)
group_loop(attrs, name, id, has_id) ==
    IF attrs = <<>>
    THEN IF has_id
         THEN [kind |-> "ok", err |-> NoError, group |-> [id |-> id, name |-> name]]
         ELSE [kind |-> "err", err |-> IoError("InvalidData"), group |-> NoGroup]
    ELSE LET attr == Head(attrs)
         IN  IF attr.identifier = MulticastAttributeId_Id
             THEN LET v == as_u32(attr.data)
                  IN  group_loop(Tail(attrs), name, v.value, v.ok)
             ELSE IF attr.identifier = MulticastAttributeId_Name
             THEN LET v == as_string(attr.data)
                  IN  IF v.ok THEN group_loop(Tail(attrs), v.value, id, has_id)
                      ELSE [kind |-> "err", err |-> IoError("Utf8"), group |-> NoGroup]
             ELSE group_loop(Tail(attrs), name, id, has_id)

\* MulticastGroup::from_bytes
MulticastGroup_from_bytes(bytes) ==
    LET a == unpack_all(bytes)
    IN  IF a.panic
        THEN [kind |-> "panic", err |-> NoError, group |-> NoGroup]
        ELSE group_loop(a.attrs, <<>>, 0, FALSE)

\* the inner loop of Family::from_message over the nested group attributes
RECURSIVE groups_loop(_, _)
groups_loop(attrs, groups) ==
    IF attrs = <<>> THEN [kind |-> "ok", err |-> NoError, groups |-> groups]
    ELSE LET g == MulticastGroup_from_bytes(Head(attrs).data)
         IN  IF g.kind # "ok" THEN [kind |-> g.kind, err |-> g.err, groups |-> <<>>]
             ELSE groups_loop(Tail(attrs), Append(groups, g.group))

NoFamily == [id |-> 0, name |-> <<>>, multicast_groups |-> <<>>]

\* the loop of Family::from_message over the attributes of the message
RECURSIVE family_loop(_, _)
family_loop(attrs, f) ==
    LET Fail(kind, err) == [kind |-> kind, err |-> err, family |-> NoFamily]
    IN  IF attrs = <<>>
        THEN IF f.id > 0 THEN [kind |-> "ok", err |-> NoError, family |-> f]
             ELSE Fail("err", IoError("NotFound"))
        ELSE LET attr == Head(attrs)
             IN  IF attr.identifier = AttributeId_FamilyName
                 THEN LET v == as_string(attr.data)
                      IN  IF v.ok
                          THEN family_loop(Tail(attrs), [f EXCEPT !.name = v.value])
                          ELSE Fail("err", IoError("Utf8"))
                 ELSE IF attr.identifier = AttributeId_FamilyId
                 THEN LET v == as_u16(attr.data)
                      IN  IF v.ok
                          THEN family_loop(Tail(attrs), [f EXCEPT !.id = v.value])
                          ELSE Fail("err", NetlinkError("NotEnoughData"))
                 ELSE IF attr.identifier = AttributeId_MulticastGroups
                 THEN LET a == unpack_all(attr.data)
                          g == groups_loop(a.attrs, f.multicast_groups)
                      IN  IF a.panic THEN Fail("panic", NoError)
                          ELSE IF g.kind # "ok" THEN Fail(g.kind, g.err)
                          ELSE family_loop(Tail(attrs),
                                           [f EXCEPT !.multicast_groups = g.groups])
                 ELSE family_loop(Tail(attrs), f)

\* Family::from_message
Family_from_message(message) == family_loop(message.attributes, NoFamily)

\* generic Message::unpack followed by Family::from_message, as the resolvers
\* apply them to the payload of a controller message
DecodeFamily(data) ==
    LET m == GenericUnpack(data)
    IN  IF m.kind = "panic" THEN [kind |-> "panic", err |-> NoError, family |-> NoFamily]
        ELSE Family_from_message(m)

\* the payload of a controller message that describes family f
RECURSIVE GroupAttributes(_, _)
GroupAttributes(groups, index) ==
    IF groups = <<>> THEN <<>>
    ELSE <<[identifier |-> index,
            data |-> AttributePack(new_string(MulticastAttributeId_Name,
                                              Append(Head(groups).name, 0)))
                     \o AttributePack([identifier |-> MulticastAttributeId_Id,
                                       data |-> U32Bytes(Head(groups).id)])]>>
         \o GroupAttributes(Tail(groups), index + 1)

FamilyPayload(command, f) ==
    GenericPack(command, 2,
        <<new_string(AttributeId_FamilyName, Append(f.name, 0)),
          new_u16(AttributeId_FamilyId, f.id)>>
        \o (IF f.multicast_groups = <<>> THEN <<>>
            ELSE <<[identifier |-> AttributeId_MulticastGroups,
                    data |-> pack_vec(GroupAttributes(f.multicast_groups, 1))]>>))

-----------------------------------------------------------------------------
(* The resolvers of generic.rs: Family::from_name, Family::from_id and        *)
(* Family::all.  `reply` is what the kernel queues in answer to the request.  *)

\* the values FamilyId::from accepts; any other value makes it panic
FamilyIds == {GENL_ID_CTRL, 17, 18}

\* the for loop of from_name and from_id over one batch: field is "name" or "id"
RECURSIVE match_loop(_, _, _)

\* a resolver that takes the first family it can decode
matched_any(d, rest, field, wanted) == d

\* the loop body for a controller message that decoded as d
matched(d, rest, field, wanted) ==
    IF d.kind # "ok" THEN d
    ELSE IF d.family[field] = wanted THEN d
    ELSE match_loop(rest, field, wanted)

match_loop(msgs, field, wanted) ==
    IF msgs = <<>> THEN [kind |-> "none", err |-> NoError, family |-> NoFamily]
    ELSE IF Head(msgs).header.identifier = GENL_ID_CTRL
    THEN matched(DecodeFamily(Head(msgs).data), Tail(msgs), field, wanted)
    ELSE match_loop(Tail(msgs), field, wanted)

\* the for loop of Family::all over the batch
RECURSIVE all_loop(_, _)

\* the loop body for a controller message that decoded as d
listed(d, rest, families) ==
    IF d.kind # "ok" THEN [kind |-> d.kind, err |-> d.err, families |-> <<>>]
    ELSE all_loop(rest, Append(families, d.family))

all_loop(msgs, families) ==
    IF msgs = <<>> THEN [kind |-> "ok", err |-> NoError, families |-> families]
    ELSE IF Head(msgs).header.identifier \notin FamilyIds
    THEN [kind |-> "panic", err |-> NoError, families |-> <<>>]
    ELSE IF Head(msgs).header.identifier = GENL_ID_CTRL
    THEN listed(DecodeFamily(Head(msgs).data), Tail(msgs), families)
    ELSE all_loop(Tail(msgs), families)

\* what a resolver has gathered from its receive_messages calls
NoBatches == [trace |-> <<>>, reads |-> 0, batches |-> <<>>]

Gathered(acc, out) ==
    [trace |-> acc.trace \o out.trace, reads |-> acc.reads + out.reads,
     batches |-> IF out.kind = "ok" THEN Append(acc.batches, out.msgs)
                 ELSE acc.batches]

\* what a resolver returns: the state of the socket and the outcome, with the
\* request sent, the batches received and the families found
Resolved(op, s, rest, map, kind, err, found, body, acc) ==
    [sequence_next |-> s.sequence_next, sent |-> map, queue |-> rest,
     out |-> [Outcome(op, kind, err, 0, <<>>, body, s.out.header, acc.trace, acc.reads)
                 EXCEPT !.found = found, !.batches = acc.batches]]

\* the receive loop of from_name and from_id
RECURSIVE resolve_loop(_, _, _, _, _, _, _, _, _)

\* the loop body after the batch r was scanned with result m
scanned(m, r, op, s, checked, field, wanted, body, acc) ==
    IF m.kind = "none"
    THEN resolve_loop(op, s, r.queue, checked, r.sent, field, wanted, body, acc)
    ELSE Resolved(op, s, r.queue, r.sent, m.kind, m.err,
                  IF m.kind = "ok" THEN <<m.family>> ELSE <<>>, body, acc)

\* the loop body after receive_messages returned r
batch(r, op, s, checked, field, wanted, body, acc) ==
    IF r.out.kind # "ok"
    THEN Resolved(op, s, r.queue, r.sent, r.out.kind, r.out.err, <<>>, body,
                  Gathered(acc, r.out))
    ELSE IF r.out.msgs = <<>>
    THEN Resolved(op, s, r.queue, r.sent, "err", IoError("NotFound"), <<>>, body,
                  Gathered(acc, r.out))
    ELSE scanned(match_loop(r.out.msgs, field, wanted), r, op, s, checked, field,
                 wanted, body, Gathered(acc, r.out))

resolve_loop(op, s, q, checked, map, field, wanted, body, acc) ==
    batch(receive_messages(q, checked, map), op, s, checked, field, wanted, body, acc)

\* the request a resolver sends: a GetFamily message to the controller
GetFamily(mode, body) ==
    [message_type |-> GENL_ID_CTRL, flags |-> ModeFlags(mode), size |-> Len(body)]

\* a resolver after send_message returned s: `?` returns its error
sent_then(s, op, q, body, continued) ==
    IF s.out.kind # "ok"
    THEN Resolved(op, s, q, s.sent, s.out.kind, s.out.err, <<>>, body, NoBatches)
    ELSE continued

\* Family::from_name (field "name") and Family::from_id (field "id")
resolve(op, s, q, field, wanted, body, reply, checked) ==
    sent_then(s, op, q, body,
              resolve_loop(op, s, q \o reply, checked, s.sent, field, wanted, body,
                           NoBatches))

from_name(sequence, map, q, name, sys, reply, checked) ==
    resolve("from_name",
            send_message(sequence, map,
                GetFamily("Acknowledge",
                    GenericPack(Command_GetFamily, 1,
                                <<new_string(AttributeId_FamilyName, name)>>)), sys),
            q, "name", name,
            GenericPack(Command_GetFamily, 1,
                        <<new_string(AttributeId_FamilyName, name)>>),
            reply, checked)

from_id(sequence, map, q, id, sys, reply, checked) ==
    resolve("from_id",
            send_message(sequence, map,
                GetFamily("Acknowledge",
                    GenericPack(Command_GetFamily, 1,
                                <<new_u16(AttributeId_FamilyId, id)>>)), sys),
            q, "id", id,
            GenericPack(Command_GetFamily, 1, <<new_u16(AttributeId_FamilyId, id)>>),
            reply, checked)

\* Family::all after its one receive_messages call returned r and the
\* batch was decoded as a
collected(a, r, s, body) ==
    Resolved("all", s, r.queue, r.sent, a.kind, a.err, a.families, body,
             Gathered(NoBatches, r.out))

all_received(r, s, body) ==
    IF r.out.kind # "ok"
    THEN Resolved("all", s, r.queue, r.sent, r.out.kind, r.out.err, <<>>, body,
                  Gathered(NoBatches, r.out))
    ELSE collected(all_loop(r.out.msgs, <<>>), r, s, body)

all_sent(s, q, body, reply, checked) ==
    sent_then(s, "all", q, body,
              all_received(receive_messages(q \o reply, checked, s.sent), s, body))

\* Family::all
all(sequence, map, q, sys, reply, checked) ==
    all_sent(send_message(sequence, map,
                 GetFamily("Dump", GenericPack(Command_GetFamily, 1, <<>>)), sys),
             q, GenericPack(Command_GetFamily, 1, <<>>), reply, checked)

-----------------------------------------------------------------------------
(* The socket with a kernel that answers every request it received, and a    *)
(* caller that only uses receive_messages                                    *)

\* the replies the kernel may queue for the request with header h: a dump ends
\* with DONE, an acknowledged request with ERROR (code 0 on success), and a
\* request with neither flag gets its data and nothing more
KernelReplies(h) ==
    LET s == h.sequence
        D == DataRec(s, h.pid, 0)
        M == DataRec(s, h.pid, MULTIPART)
    IN  IF (h.flags \div 256) % 4 = 3
        THEN { <<Datagram(<<M, DoneRec(s, h.pid)>>)>>,
               <<Datagram(<<M, M>>), Datagram(<<DoneRec(s, h.pid)>>)>> }
        ELSE IF HasBit(h.flags, ACKNOWLEDGE)
        THEN { <<Datagram(<<D, ErrorRec(s, h.pid, 0)>>)>>,
               <<Datagram(<<D>>), Datagram(<<ErrorRec(s, h.pid, 0)>>)>>,
               <<Datagram(<<ErrorRec(s, h.pid, -1)>>)>> }
        ELSE { <<Datagram(<<D>>)>> }

\* the kernel answers one of the requests it holds
Reply(h, reply) ==
    /\ Alive
    /\ h \in requests
    /\ reply \in KernelReplies(h)
    /\ requests' = requests \ {h}
    /\ queue' = queue \o reply
    /\ UNCHANGED <<sequence_next, sent, log, result>>

NextReply ==
    \/ \E payload \in Payloads : Send(payload, 0)
    \/ \E h \in requests : \E reply \in KernelReplies(h) : Reply(h, reply)
    \/ \E checked \in BOOLEAN : ReceiveMessages(<<>>, checked)

SpecReply == Init /\ [][NextReply]_vars

-----------------------------------------------------------------------------
(* The resolvers on a socket whose kernel knows the families of `Families`   *)
(* and announces new families to the socket's multicast groups               *)

Nlctrl == [id |-> GENL_ID_CTRL, name |-> <<110>>, multicast_groups |-> <<>>]
Quota == [id |-> 21, name |-> <<113>>,
          multicast_groups |-> <<[id |-> 5, name |-> <<101>>]>>]
Families == {Nlctrl, Quota}

\* the names and ids callers ask for; <<120>> and 23 are unknown to the kernel
Names == {Nlctrl.name, <<120>>}
Ids == {Nlctrl.id, 23}

\* a controller message that describes family f
FamilyRec(sequence, pid, flags, command, f) ==
    LET body == FamilyPayload(command, f)
    IN  Record(HEADER_SIZE + Len(body), GENL_ID_CTRL, flags, sequence, pid, body)

\* what the kernel may queue in answer to the GetFamily request s for one family
LookupReplies(s) ==
    LET F(f) == FamilyRec(s, LocalPid, 0, Command_NewFamily, f)
        Ack == ErrorRec(s, LocalPid, 0)
    IN  { <<>>,
          <<Datagram(<<F(Nlctrl)>>), Datagram(<<Ack>>)>>,
          <<Datagram(<<F(Quota), Ack>>)>>,
          <<Datagram(<<F(Quota)>>), Datagram(<<F(Nlctrl), Ack>>)>>,
          <<Datagram(<<Ack>>)>>,
          <<Datagram(<<ErrorRec(s, LocalPid, -2)>>)>>,
          <<Datagram(<<F(NoFamily), Ack>>)>>,
          <<Datagram(<<DataRec(s, LocalPid, 0)>>)>> }

\* what the kernel may queue in answer to the GetFamily dump request s
DumpReplies(s) ==
    LET M(f) == FamilyRec(s, LocalPid, MULTIPART, Command_NewFamily, f)
        Done == DoneRec(s, LocalPid)
    IN  { <<>>,
          <<Datagram(<<M(Nlctrl), M(Quota)>>), Datagram(<<Done>>)>>,
          <<Datagram(<<M(Nlctrl), M(Quota), Done>>)>>,
          <<Datagram(<<Done>>)>>,
          <<Datagram(<<Record(HEADER_SIZE + 4, 21, MULTIPART, s, LocalPid,
                              <<1, 1, 0, 0>>), Done>>)>> }

\* the kernel's answer arrives only when the request reached it
Answers(sys, replies) == IF sys = 0 THEN replies ELSE {<<>>}

Resolve(r, reply) ==
    /\ sequence_next' = r.sequence_next
    /\ sent' = r.sent
    /\ queue' = r.queue
    /\ result' = Called(r.out, queue \o reply, sent, sequence_next)
    /\ log' = Append(log, r.out.header.sequence)
    /\ UNCHANGED requests

FromName(name, sys, reply, checked) ==
    /\ Alive
    /\ Len(log) < MaxResolves
    /\ Resolve(from_name(sequence_next, sent, queue, name, sys, reply, checked), reply)

FromId(id, sys, reply, checked) ==
    /\ Alive
    /\ Len(log) < MaxResolves
    /\ Resolve(from_id(sequence_next, sent, queue, id, sys, reply, checked), reply)

All(sys, reply, checked) ==
    /\ Alive
    /\ Len(log) < MaxResolves
    /\ Resolve(all(sequence_next, sent, queue, sys, reply, checked), reply)

\* the kernel announces family f to the multicast group the socket has joined
Notify(f) ==
    /\ Alive
    /\ queue = <<>>
    /\ queue' = <<Datagram(<<FamilyRec(0, 0, 0, Command_NewFamily, f)>>)>>
    /\ UNCHANGED <<sequence_next, sent, requests, log, result>>

NextGeneric ==
    \/ \E name \in Names, sys \in {0} \cup Errnos, checked \in BOOLEAN :
           \E reply \in Answers(sys, LookupReplies(sequence_next)) :
               FromName(name, sys, reply, checked)
    \/ \E id \in Ids, sys \in {0} \cup Errnos, checked \in BOOLEAN :
           \E reply \in Answers(sys, LookupReplies(sequence_next)) :
               FromId(id, sys, reply, checked)
    \/ \E sys \in {0} \cup Errnos, checked \in BOOLEAN :
           \E reply \in Answers(sys, DumpReplies(sequence_next)) :
               All(sys, reply, checked)
    \/ \E f \in Families : Notify(f)

SpecGeneric == Init /\ [][NextGeneric]_vars

-----------------------------------------------------------------------------
(* Properties of the socket engine *)

\* the records of a run of datagrams, in arrival order
RECURSIVE Records(_)
Records(q) == IF q = <<>> THEN <<>> ELSE Head(q).recs \o Records(Tail(q))

\* a record whose body is as long as its header declares, padding included
WellFormed(rec) ==
    /\ rec.header.length >= HEADER_SIZE
    /\ Len(rec.body) = netlink_align(rec.header.length - HEADER_SIZE)

IsControl(rec) == rec.header.identifier \in {NLMSG_NOOP, NLMSG_ERROR, NLMSG_DONE}

\* a Data record for request s, and the message it decodes to
IsDataFor(rec, s) ==
    /\ WellFormed(rec)
    /\ ~IsControl(rec)
    /\ rec.header.sequence = s
    /\ rec.header.pid = LocalPid

MessageOf(rec) ==
    [header |-> rec.header,
     data |-> SubSeq(rec.body, 1, rec.header.length - HEADER_SIZE)]

IsDoneFor(rec, s) ==
    /\ WellFormed(rec)
    /\ rec.header.identifier = NLMSG_DONE
    /\ rec.header.sequence = s
    /\ rec.header.pid = LocalPid

\* q holds exactly a dump reply for s: datagrams with N Data records, then DONE
DumpReply(q, s) ==
    LET recs == Records(q)
    IN  /\ q # <<>>
        /\ \A i \in 1..Len(q) : q[i].kind = "dgram" /\ q[i].recs # <<>>
        /\ IsDoneFor(recs[Len(recs)], s)
        /\ \A i \in 1..(Len(recs) - 1) : IsDataFor(recs[i], s)

DumpCall(s) ==
    /\ result.op = "receive_messages"
    /\ s \in DOMAIN result.pending
    /\ result.pending[s] = "Dump"
    /\ DumpReply(result.input, s)

\* C1: a receive_messages call that meets, for a request s pending in Dump
\* mode, N Data records for s followed by the DONE record for s (in one datagram
\* or in consecutive queued datagrams) returns Ok with exactly the N Data
\* messages in arrival order, consumes those datagrams and retires s.
C1_DumpCompletes ==
    \A s \in DOMAIN result.pending :
        DumpCall(s) =>
            LET recs == Records(result.input)
            IN  /\ result.kind = "ok"
                /\ result.msgs = [i \in 1..(Len(recs) - 1) |-> MessageOf(recs[i])]
                /\ s \notin DOMAIN sent
                /\ queue = <<>>

\* C1 witness: a dump of two Data records spread over two datagrams is received
C1_Witness ==
    \E s \in DOMAIN result.pending :
        /\ DumpCall(s)
        /\ Len(result.input) = 2
        /\ Len(result.msgs) = 2
        /\ result.reads = 2
        /\ s \notin DOMAIN sent

\* a send that got past payload packing (its header was written)
Allocated == result.op = "send" /\ result.header # NoHeader

\* C2: the k-th send that gets past payload packing carries sequence k (the
\* first one carries 1) and the local pid in its header, records the mode its
\* flags stand for (None, Acknowledge or Dump) under that sequence in the
\* pending map, changes no other entry, and leaves sequence_next at k + 1.
C2_SendAllocates ==
    /\ \A k \in 1..Len(log) : log[k] = k
    /\ sequence_next = Len(log) + 1
    /\ Allocated =>
           LET h == result.header
           IN  /\ h.sequence = Len(log)
               /\ h.pid = LocalPid
               /\ \E mode \in Modes :
                      /\ h.flags = ModeFlags(mode)
                      /\ sent = MapInsert(result.pending, h.sequence, mode)

\* C2 witness: the second send, in Dump mode, while the first is still pending
C2_Witness ==
    /\ Allocated
    /\ result.header.sequence = 2
    /\ log = <<1, 2>>
    /\ DOMAIN sent = {1, 2}
    /\ sent[2] = "Dump"
    /\ sequence_next = 3

\* a + b = 0, computed without leaving the 32-bit range
Opposite(a, b) ==
    LET low == (a % 2) + (b % 2)
    IN  /\ low % 2 = 0
        /\ (a \div 2) + (b \div 2) + (low \div 2) = 0

\* the last record a receive_messages call processed
LastEntry == result.trace[Len(result.trace)]

\* the call ended on an ERROR record whose code field is not 0
ErrorCall ==
    /\ result.op = "receive_messages"
    /\ result.trace # <<>>
    /\ LastEntry.header.identifier = NLMSG_ERROR
    /\ LastEntry.outcome \in {"error", "panic"}
    /\ LastEntry.code # 0

\* C3: a receive_messages call that processes an ERROR record with sequence s
\* and code c # 0 returns Err carrying the OS errno -c, has removed s from the
\* pending map, and returns none of the messages decoded earlier in the call.
C3_ErrorAborts ==
    ErrorCall =>
        /\ result.kind = "err"
        /\ result.err.kind = "Os"
        /\ Opposite(result.err.errno, LastEntry.code)
        /\ LastEntry.header.sequence \notin DOMAIN sent
        /\ result.msgs = <<>>

\* C3 witness: code -1 after a decoded Data record gives errno 1 and no message
C3_Witness ==
    /\ ErrorCall
    /\ LastEntry.code = -1
    /\ result.err = OsError(1)
    /\ Len(result.trace) = 2
    /\ result.trace[1].outcome = "data"
    /\ result.msgs = <<>>
    /\ LastEntry.header.sequence \in DOMAIN result.pending
    /\ LastEntry.header.sequence \notin DOMAIN sent

ReceiveCall == result.op = "receive_messages"

\* the pending map and the message count right after the i-th record of the call
PendingAfter(i) ==
    IF i < Len(result.trace) THEN result.trace[i + 1].pending ELSE sent

CountAfter(i) ==
    IF i < Len(result.trace) THEN result.trace[i + 1].count ELSE Len(result.msgs)

PidOk(e) == e.header.pid \in {0, LocalPid}

\* an ERROR record with code 0 for a sequence pending when it is met
IsAck(e) ==
    /\ e.header.identifier = NLMSG_ERROR
    /\ PidOk(e)
    /\ e.header.sequence \in DOMAIN e.pending
    /\ e.outcome # "bad_error"
    /\ e.code = 0

\* the queue holds one datagram with a Data record and the acknowledgment for s
AckReply(q, s) ==
    /\ Len(q) = 1
    /\ q[1].kind = "dgram"
    /\ Len(q[1].recs) = 2
    /\ IsDataFor(q[1].recs[1], s)
    /\ q[1].recs[2] = ErrorRec(s, LocalPid, 0)

\* C4: an ERROR record with code 0 for a pending sequence s does not end the
\* call with an error, adds no message, removes s from the pending map and
\* keeps the messages decoded before it; after an Acknowledge-mode send the
\* records [Data(s), ERROR(s, 0)] give Ok with exactly the one Data message.
C4_AckContinues ==
    ReceiveCall =>
        /\ \A i \in 1..Len(result.trace) :
               IsAck(result.trace[i]) =>
                   LET e == result.trace[i]
                   IN  /\ i = Len(result.trace) => result.kind = "ok"
                       /\ CountAfter(i) = e.count
                       /\ PendingAfter(i) = MapRemove(e.pending, e.header.sequence)
                       /\ e.header.sequence \notin DOMAIN PendingAfter(i)
        /\ \A s \in DOMAIN result.pending :
               (result.pending[s] = "Acknowledge" /\ AckReply(result.input, s)) =>
                   /\ result.kind = "ok"
                   /\ result.msgs = <<MessageOf(result.input[1].recs[1])>>
                   /\ s \notin DOMAIN sent

\* C4 witness: [Data(s), ERROR(s, 0)] received for an Acknowledge-mode request
C4_Witness ==
    /\ ReceiveCall
    /\ \E s \in DOMAIN result.pending :
           /\ result.pending[s] = "Acknowledge"
           /\ AckReply(result.input, s)
           /\ IsAck(result.trace[2])
           /\ Len(result.msgs) = 1
           /\ s \notin DOMAIN sent

\* C5: receive_messages rejects with InvalidValue every record, of any type,
\* whose pid is neither 0 nor the local pid, rejects no record on pid grounds
\* whose pid is 0 or the local pid, and the pid check comes first: the rejected
\* record leaves the pending map as it was.
C5_PidCheck ==
    ReceiveCall =>
        \A i \in 1..Len(result.trace) :
            LET e == result.trace[i]
            IN  e.outcome # "bad_header" =>
                    /\ e.outcome = "bad_pid" <=> ~PidOk(e)
                    /\ e.outcome = "bad_pid" =>
                           /\ i = Len(result.trace)
                           /\ result.kind = "err"
                           /\ result.err = NetlinkError("InvalidValue")
                           /\ sent = e.pending

\* C5 witness: a DONE record of another pid for a pending sequence is rejected
\* and the sequence stays pending
C5_Witness ==
    /\ ReceiveCall
    /\ result.trace # <<>>
    /\ LastEntry.outcome = "bad_pid"
    /\ LastEntry.header.identifier = NLMSG_DONE
    /\ LastEntry.header.pid = OtherPid
    /\ LastEntry.header.sequence \in DOMAIN sent

\* C6: a record that passed the pid check is rejected with InvalidValue exactly
\* when its sequence is not 0 and not a key of the pending map at that moment;
\* so a record for a sequence retired earlier by DONE or ERROR is rejected.
C6_SequenceCheck ==
    ReceiveCall =>
        \A i \in 1..Len(result.trace) :
            LET e == result.trace[i]
                stale == e.header.sequence # 0
                         /\ e.header.sequence \notin DOMAIN e.pending
            IN  (e.outcome # "bad_header" /\ PidOk(e)) =>
                    /\ e.outcome = "bad_sequence" <=> stale
                    /\ stale =>
                           /\ i = Len(result.trace)
                           /\ result.kind = "err"
                           /\ result.err = NetlinkError("InvalidValue")
                           /\ sent = e.pending
                    /\ \A j \in 1..(i - 1) :
                           (/\ result.trace[j].header.identifier
                                   \in {NLMSG_DONE, NLMSG_ERROR}
                            /\ result.trace[j].header.sequence = e.header.sequence
                            /\ e.header.sequence # 0) => e.outcome = "bad_sequence"

\* C6 witness: a Data record for s that follows the DONE record for s in the
\* same datagram is rejected
C6_Witness ==
    /\ ReceiveCall
    /\ Len(result.trace) = 2
    /\ result.trace[1].header.identifier = NLMSG_DONE
    /\ result.trace[1].header.sequence \in DOMAIN result.pending
    /\ result.trace[2].header.sequence = result.trace[1].header.sequence
    /\ result.trace[2].pos > 0
    /\ result.trace[2].outcome = "bad_sequence"
    /\ result.err = NetlinkError("InvalidValue")

\* the socket is Idle when nothing is pending, AwaitingReply otherwise
Idle == sent = EmptyMap

\* every request was answered and receive_messages has processed every reply
AllProcessed ==
    /\ requests = {}
    /\ queue = <<>>
    /\ ReceiveCall
    /\ result.kind = "ok"

\* C7: every send leaves the socket AwaitingReply (the pending map is not
\* empty), and the socket is Idle again once the replies of all outstanding
\* requests were received and processed by receive_messages, whatever the mode
\* of the requests.
C7_ReturnsToIdle ==
    /\ Allocated => ~Idle
    /\ AllProcessed => Idle

\* C7 witness: requests in Acknowledge and Dump mode were answered and
\* processed, and the socket is Idle again
C7_Witness ==
    /\ AllProcessed
    /\ Idle
    /\ Len(log) = 2
    /\ Len(result.trace) >= 2

\* the read that ended the call found the queue empty (EAGAIN)
ReadEmpty == result.reads = Len(result.input) + 1

\* the read that ended the call hit a socket error
ReadFailed ==
    /\ result.reads <= Len(result.input)
    /\ result.input[result.reads].kind = "oserr"

\* the messages of the Data records the call decoded
Decoded(trace) == {i \in 1..Len(trace) : trace[i].outcome = "data"}

\* C8: receive and receive_messages never wait: a read that finds nothing
\* queued counts as a zero-byte read, on which receive returns no bytes and
\* receive_messages returns Ok with the messages decoded so far; another read
\* error is returned; every call returns, and within a datagram the cursor
\* strictly advances on every record.
C8_NeverWaits ==
    /\ result.kind # "hang"
    /\ (result.op = "receive" /\ ReadEmpty) =>
           result.kind = "ok" /\ result.data = <<>>
    /\ (ReceiveCall /\ ReadEmpty) =>
           /\ result.kind = "ok"
           /\ Len(result.msgs) = Cardinality(Decoded(result.trace))
    /\ (result.op \in {"receive", "receive_messages"} /\ ReadFailed) =>
           /\ result.kind = "err"
           /\ result.err = OsError(result.input[result.reads].errno)
    /\ ReceiveCall =>
           \A i \in 1..Len(result.trace) :
               result.trace[i].outcome \in {"noop", "ack", "done", "data", "hang"}
                   => result.trace[i].next > result.trace[i].pos

\* C8 witness: a call that decoded a message and then found the queue empty
C8_Witness ==
    /\ ReceiveCall
    /\ ReadEmpty
    /\ result.reads = 2
    /\ result.kind = "ok"
    /\ Len(result.msgs) = 1

-----------------------------------------------------------------------------
(* Properties of the resolvers *)

RECURSIVE Flatten(_)
Flatten(batches) ==
    IF batches = <<>> THEN <<>> ELSE Head(batches) \o Flatten(Tail(batches))

\* the call sent exactly one request: a GetFamily message to the controller
\* with the flags of `mode` and the attributes `attrs`
OneRequest(mode, attrs) ==
    LET body == <<Command_GetFamily, 1, 0, 0>> \o pack_vec(attrs)
    IN  /\ sequence_next = result.first + 1
        /\ log[Len(log)] = result.first
        /\ result.data = body
        /\ result.header = [length |-> HEADER_SIZE + Len(body),
                            identifier |-> GENL_ID_CTRL,
                            flags |-> ModeFlags(mode),
                            sequence |-> result.first,
                            pid |-> LocalPid]

\* message m is a controller message that describes a family whose `field` is
\* `wanted`
Matches(m, field, wanted) ==
    /\ m.header.identifier = GENL_ID_CTRL
    /\ DecodeFamily(m.data).kind = "ok"
    /\ DecodeFamily(m.data).family[field] = wanted

\* the batches a lookup received, against what it returned
Lookup(field, wanted) ==
    LET msgs == Flatten(result.batches)
        n == Len(result.batches)
    IN  /\ \A k \in 1..(n - 1) :
               /\ result.batches[k] # <<>>
               /\ \A i \in 1..Len(result.batches[k]) :
                      ~Matches(result.batches[k][i], field, wanted)
        /\ result.kind = "ok" =>
               \E i \in 1..Len(msgs) :
                   /\ Matches(msgs[i], field, wanted)
                   /\ \A j \in 1..(i - 1) : ~Matches(msgs[j], field, wanted)
                   /\ result.found = <<DecodeFamily(msgs[i].data).family>>
                   /\ \E f \in Families :
                          /\ result.found = <<f>>
                          /\ msgs[i].data = FamilyPayload(Command_NewFamily, f)
        /\ (n > 0 /\ result.batches[n] = <<>>) =>
               /\ result.kind = "err"
               /\ result.err = IoError("NotFound")
               /\ result.found = <<>>

\* C9: from_name (from_id) sends exactly one GetFamily request to the
\* controller in Acknowledge mode with the name (id) attribute, then receives
\* batch after batch; when it succeeds it returns the family of the first
\* controller message that decodes to a family with the requested name (id),
\* and it fails with NotFound when a batch comes back empty before a match.
C9_Resolve ==
    /\ result.op = "from_name" =>
           \E name \in Names :
               /\ OneRequest("Acknowledge", <<new_string(AttributeId_FamilyName, name)>>)
               /\ Lookup("name", name)
    /\ result.op = "from_id" =>
           \E id \in Ids :
               /\ OneRequest("Acknowledge", <<new_u16(AttributeId_FamilyId, id)>>)
               /\ Lookup("id", id)

\* C9 witness: from_name returns the controller's family from the second batch,
\* after an announcement of another family in the first
C9_Witness ==
    /\ result.op = "from_name"
    /\ result.kind = "ok"
    /\ Len(result.batches) = 2
    /\ Matches(result.batches[1][1], "name", Quota.name)
    /\ result.found = <<Nlctrl>>

\* C9 witness: from_name finds nothing and fails with NotFound
C9_NotFound ==
    /\ result.op = "from_name"
    /\ Len(result.batches) = 2
    /\ result.batches[2] = <<>>
    /\ result.err = IoError("NotFound")

\* the Data messages of the dump a Family::all call asked for
DumpMessages ==
    SelectSeq(Flatten(result.batches),
              LAMBDA m : m.header.sequence = result.first
                         /\ m.header.identifier = GENL_ID_CTRL)

\* the call processed the DONE record of its request
DoneProcessed ==
    \E i \in 1..Len(result.trace) :
        /\ result.trace[i].header.identifier = NLMSG_DONE
        /\ result.trace[i].header.sequence = result.first
        /\ result.trace[i].outcome = "done"

\* C10: Family::all sends one GetFamily request in Dump mode; when it succeeds
\* it has processed the DONE record of its request, and it returns, in order,
\* one family for every controller Data record of the dump before that DONE.
C10_ListAll ==
    result.op = "all" =>
        /\ OneRequest("Dump", <<>>)
        /\ result.kind = "ok" =>
               /\ DoneProcessed
               /\ result.found =
                      [i \in 1..Len(DumpMessages) |->
                          DecodeFamily(DumpMessages[i].data).family]

\* C10 witness: a dump of two families spread over two datagrams is listed
C10_Witness ==
    /\ result.op = "all"
    /\ result.kind = "ok"
    /\ DoneProcessed
    /\ result.reads = 2
    /\ result.found = <<Nlctrl, Quota>>

-----------------------------------------------------------------------------
(* The codecs on their own: packing into a destination of a given size and   *)
(* unpacking from a buffer of a given size (src/src/core/pack.rs,            *)
(* attribute.rs).  A destination is the sequence of its bytes; packing gives  *)
(* the destination as it is afterwards and `pos`, the offset at which the     *)
(* returned rest of the destination starts.                                  *)

\* payload bytes of the attributes that are packed
MaxData == 5

\* the byte a destination is filled with before a pack
Fill == 170

Filled(size) == [i \in 1..size |-> Fill]

Packed(kind, buffer, pos) == [kind |-> kind, buffer |-> buffer, pos |-> pos]

\* NativePack::pack of a value that occupies `bytes`, into &buffer[o..]: the
\* size is checked before anything is written
pack(bytes, buffer, o) ==
    IF Len(buffer) - o < Len(bytes)
    THEN Packed("err", buffer, o)
    ELSE Packed("ok",
                SubSeq(buffer, 1, o) \o bytes
                    \o SubSeq(buffer, o + Len(bytes) + 1, Len(buffer)),
                o + Len(bytes))

\* a length field that leaves out the attribute header
AttributeLengthBare(attr) == Len(attr.data) % 65536

\* self.total_len() as u16
AttributeLength(attr) == (Len(attr.data) + ATTRIBUTE_HEADER_SIZE) % 65536

\* a pack that fills the padding with zero bytes
Attribute_pack_zeroed(attr, c) ==
    IF c.kind # "ok" THEN Packed("err", c.buffer, 0)
    ELSE pack(Padding(Len(attr.data)), c.buffer, c.pos)

\* Attribute::pack after the data was written: &mut slice[padding..]
Attribute_pack_padding(attr, c) ==
    IF c.kind # "ok" THEN Packed("err", c.buffer, 0)
    ELSE IF Len(c.buffer) - c.pos < netlink_padding(Len(attr.data))
    THEN Packed("panic", c.buffer, 0)
    ELSE Packed("ok", c.buffer, c.pos + netlink_padding(Len(attr.data)))

\* Attribute::pack after the identifier was written
Attribute_pack_data(attr, b) ==
    IF b.kind # "ok" THEN Packed("err", b.buffer, 0)
    ELSE Attribute_pack_padding(attr, pack(attr.data, b.buffer, b.pos))

\* Attribute::pack after the length was written
Attribute_pack_identifier(attr, a) ==
    IF a.kind # "ok" THEN Packed("err", a.buffer, 0)
    ELSE Attribute_pack_data(attr, pack(U16Bytes(attr.identifier), a.buffer, a.pos))

\* Attribute::pack(&self, buffer): length, identifier, data, each with `?`,
\* then the padding is skipped
Attribute_pack(attr, buffer) ==
    Attribute_pack_identifier(attr, pack(U16Bytes(AttributeLength(attr)), buffer, 0))

\* the outcome of a codec call on `value` and `buffer`
Codec(op, type, value, buffer, out, back) ==
    [op |-> op, kind |-> out.kind, type |-> type, value |-> value,
     buffer |-> buffer, out |-> out, back |-> back]

\* the codec calls are made on a fresh state, one call each
Fresh == result.op = "new"

RECURSIVE ByteSeqs(_, _)
\* the sequences of exactly n bytes of `alphabet`
ByteSeqs(alphabet, n) ==
    IF n = 0 THEN {<<>>}
    ELSE {Append(s, b) : s \in ByteSeqs(alphabet, n - 1), b \in alphabet}

\* the sequences of at most n bytes of `alphabet`
ByteSeqsUpTo(alphabet, n) == UNION {ByteSeqs(alphabet, k) : k \in 0..n}

\* the largest payload whose length field fits a u16
LongData == [i \in 1..(65535 - ATTRIBUTE_HEADER_SIZE) |-> 255]

Attributes ==
    [identifier : {1, 4096, 65535}, data : ByteSeqsUpTo({0, 255}, MaxData)]

\* Attribute::pack into a destination of `size` bytes, then
\* Attribute::unpack_with_size on what was written
PackAttribute(attr, size) ==
    /\ Fresh
    /\ LET out == Attribute_pack(attr, Filled(size))
       IN  result' = Codec("Attribute::pack", "Attribute", attr, Filled(size), out,
                           IF out.kind = "ok" THEN AttributeUnpack(out.buffer)
                           ELSE AttributeUnpack(<<>>))
    /\ UNCHANGED <<sequence_next, sent, queue, requests, log>>

\* bytes of the buffers handed to Attribute::unpack_all
MaxBuffer == 8

\* payload bytes of the attributes of a buffer made of two attributes
MaxPairData == 3

\* what Attribute::unpack_all returns: (pos, attrs), unless it panicked
Unpacked(r) ==
    [kind |-> IF r.panic THEN "panic" ELSE "ok", used |-> r.used, attrs |-> r.attrs]

\* Attribute::unpack_all on a buffer of arbitrary bytes
UnpackAll(buffer) ==
    /\ Fresh
    /\ result' = Codec("Attribute::unpack_all", "bytes", <<>>, buffer,
                       Unpacked(unpack_all(buffer)), 0)
    /\ UNCHANGED <<sequence_next, sent, queue, requests, log>>

PairAttributes ==
    [identifier : {1, 4096}, data : ByteSeqsUpTo({17, 255}, MaxPairData)]

\* Attribute::unpack_all on a buffer made of two attributes, the last `cut`
\* bytes of the second one missing
UnpackPair(first, second, cut) ==
    /\ Fresh
    /\ cut < Len(AttributePack(second))
    /\ LET whole == AttributePack(first) \o AttributePack(second)
           buffer == SliceTo(whole, Len(whole) - cut)
       IN  result' = Codec("Attribute::unpack_all", "attributes", <<first, second>>,
                           buffer, Unpacked(unpack_all(buffer)), cut)
    /\ UNCHANGED <<sequence_next, sent, queue, requests, log>>

\* the fixed-width integer types of pack.rs.  A u8 or u16 value is a natural
\* number and an i8, i16 or i32 value an integer; a u32, u64 or i64 value is the
\* sequence of its 16-bit words, low word first (for i64 the words of its two's
\* complement)
Types == {"u8", "i8", "u16", "i16", "u32", "i32", "u64", "i64"}

WordTypes == {"u32", "u64", "i64"}

\* mem::size_of::<T>()
size_of(T) ==
    CASE T \in {"u8", "i8"} -> 1
      [] T \in {"u16", "i16"} -> 2
      [] T \in {"u32", "i32"} -> 4
      [] T \in {"u64", "i64"} -> 8
      [] T = "HardwareAddress" -> 6
      [] T = "Header" -> HEADER_SIZE

RECURSIVE WordsBytes(_)
WordsBytes(words) ==
    IF words = <<>> THEN <<>> ELSE U16Bytes(Head(words)) \o WordsBytes(Tail(words))

RECURSIVE Reverse(_)
Reverse(s) == IF s = <<>> THEN <<>> ELSE Append(Reverse(Tail(s)), Head(s))

\* NativeEndian::write_* (and the plain copies of u8, i8, HardwareAddress,
\* Vec<u8> and the field by field pack of Header)
NativeEndian_write(T, v) ==
    CASE T = "u8" -> <<v>>
      [] T = "i8" -> <<v % 256>>
      [] T = "u16" -> U16Bytes(v)
      [] T = "i16" -> U16Bytes(v % 65536)
      [] T = "i32" -> I32Bytes(v)
      [] T \in WordTypes -> WordsBytes(v)
      [] T \in {"HardwareAddress", "Vec<u8>"} -> v
      [] T = "Header" -> HeaderPack(v)

\* a writer that puts the high byte first
BigEndian_write(T, v) == Reverse(NativeEndian_write(T, v))

\* T::pack_unchecked: the bytes the value occupies
pack_unchecked(T, v) == NativeEndian_write(T, v)

\* T::unpack_unchecked(buffer)
unpack_unchecked(T, buffer) ==
    CASE T = "u8" -> buffer[1]
      [] T = "i8" -> IF buffer[1] >= 128 THEN buffer[1] - 256 ELSE buffer[1]
      [] T = "u16" -> U16At(buffer, 0)
      [] T = "i16" -> IF U16At(buffer, 0) >= 32768 THEN U16At(buffer, 0) - 65536
                      ELSE U16At(buffer, 0)
      [] T = "i32" -> I32At(buffer, 0)
      [] T \in WordTypes -> [i \in 1..(size_of(T) \div 2) |-> U16At(buffer, 2 * (i - 1))]
      [] T = "HardwareAddress" -> SubSeq(buffer, 1, 6)
      [] T = "Header" -> HeaderUnpack(buffer, 0)

NoValue == <<>>

\* an unpack that accepts only a buffer of exactly the size of the type
unpack_with_size_exact(T, buffer) ==
    IF Len(buffer) # size_of(T)
    THEN [kind |-> "err", err |-> NetlinkError("NotEnoughData"), used |-> 0,
          value |-> NoValue]
    ELSE [kind |-> "ok", err |-> NoError, used |-> size_of(T),
          value |-> unpack_unchecked(T, buffer)]

\* NativeUnpack::unpack_with_size
unpack_with_size(T, buffer) ==
    IF Len(buffer) < size_of(T)
    THEN [kind |-> "err", err |-> NetlinkError("NotEnoughData"), used |-> 0,
          value |-> NoValue]
    ELSE [kind |-> "ok", err |-> NoError, used |-> size_of(T),
          value |-> unpack_unchecked(T, buffer)]

\* the values that are packed: the ends of each range and values in between
Words == {0, 255, 32768, 65535}

RECURSIVE WordSeqs(_)
WordSeqs(n) ==
    IF n = 0 THEN {<<>>} ELSE {Append(s, w) : s \in WordSeqs(n - 1), w \in Words}

HeaderValues ==
    [length : {0, HEADER_SIZE, 2147483647}, identifier : {0, GENL_ID_CTRL, 65535},
     flags : {0, REQUEST + DUMP, 65535}, sequence : {0, 1, 2147483647},
     pid : {0, LocalPid, 2147483647}]

Values(T) ==
    CASE T = "u8" -> {0, 1, 127, 128, 255}
      [] T = "i8" -> {-128, -1, 0, 1, 127}
      [] T = "u16" -> {0, 1, 255, 256, 32768, 65535}
      [] T = "i16" -> {-32768, -256, -1, 0, 1, 32767}
      [] T = "i32" -> {MinI32, -65536, -1, 0, 1, 2147483647}
      [] T \in WordTypes -> WordSeqs(size_of(T) \div 2)
      [] T = "HardwareAddress" -> ByteSeqs({0, 1, 255}, 6)
      [] T = "Header" -> HeaderValues
      [] T = "Vec<u8>" -> ByteSeqsUpTo({0, 255}, MaxData)

Packable == Types \cup {"HardwareAddress", "Header", "Vec<u8>"}

Unpackable == Types \cup {"HardwareAddress", "Header"}

\* bytes that may follow a value in the buffer it is unpacked from, and bytes
\* a destination may have beyond the value packed into it
MaxExtra == 1

\* T::pack(&v, dest) into a destination of `size` bytes, then
\* T::unpack_with_size on what was written
Pack(T, v, size) ==
    /\ Fresh
    /\ LET out == pack(pack_unchecked(T, v), Filled(size), 0)
       IN  result' = Codec("pack", T, v, Filled(size), out,
                           IF out.kind = "ok" /\ T # "Vec<u8>"
                           THEN unpack_with_size(T, out.buffer)
                           ELSE unpack_with_size("u8", <<>>))
    /\ UNCHANGED <<sequence_next, sent, queue, requests, log>>

\* the images of headers, field by field: low and high bytes of each field
HeaderImages ==
    LET u32 == {<<0, 0, 0, 0>>, <<1, 2, 3, 4>>, <<255, 255, 255, 127>>}
        u16 == {<<0, 0>>, <<1, 2>>, <<255, 255>>}
    IN  {l \o t \o f \o s \o p : l \in u32, t \in u16, f \in u16, s \in u32, p \in u32}

\* the buffers a value of type T is unpacked from: every length up to the size
\* of the type and beyond
Buffers(T) ==
    IF T = "Header"
    THEN {SliceTo(b \o Filled(MaxExtra), n) :
              b \in HeaderImages, n \in 0..(HEADER_SIZE + MaxExtra)}
    ELSE ByteSeqs({0, 128, 255}, size_of(T))
             \cup ByteSeqsUpTo({0, 255}, size_of(T) + MaxExtra)

\* T::unpack_with_size(buffer), then T::pack_unchecked of the value
Unpack(T, buffer) ==
    /\ Fresh
    /\ LET out == unpack_with_size(T, buffer)
       IN  result' = Codec("unpack", T, NoValue, buffer, out,
                           IF out.kind = "ok" THEN pack_unchecked(T, out.value)
                           ELSE <<>>)
    /\ UNCHANGED <<sequence_next, sent, queue, requests, log>>

\* the enums made by the macros of src/src/core/helpers.rs: the raw values of
\* the variants in the order they are listed; a variant is its position in the
\* list.  lenient: made by extended_enum_default!, else by extended_enum!
Enum(name, lenient, values) == [name |-> name, lenient |-> lenient, values |-> values]

Enums ==
    { Enum("generic::FamilyId", FALSE, <<GENL_ID_CTRL, 17, 18>>),
      Enum("generic::Command", TRUE, [i \in 1..10 |-> i - 1]),
      Enum("generic::MulticastAttributeId", TRUE,
           <<0, MulticastAttributeId_Name, MulticastAttributeId_Id>>),
      Enum("route::FamilyId", FALSE, <<16, 17, 18, 19>>),
      Enum("core::Protocol", FALSE, [i \in 1..22 |-> i - 1]) }

\* the first arm of `match v` that has the value v, 0 when only `_` matches
MatchArm(e, v) ==
    IF \E i \in 1..Len(e.values) : e.values[i] = v
    THEN CHOOSE i \in 1..Len(e.values) :
             /\ e.values[i] = v
             /\ \A j \in 1..(i - 1) : e.values[j] # v
    ELSE 0

\* impl From<$ty> for $name: the `_` arm gives the first variant in
\* extended_enum_default! and is panic!("Bad Value") in extended_enum!
enum_from(e, v) ==
    IF MatchArm(e, v) # 0 THEN [kind |-> "ok", variant |-> MatchArm(e, v)]
    ELSE IF e.lenient THEN [kind |-> "ok", variant |-> 1]
    ELSE [kind |-> "panic", variant |-> 0]

\* impl ConvertFrom<$ty> for $name
convert_from(e, v) ==
    IF MatchArm(e, v) # 0 THEN [some |-> TRUE, variant |-> MatchArm(e, v)]
    ELSE [some |-> FALSE, variant |-> 0]

\* impl From<$name> for $ty
enum_into(e, variant) == e.values[variant]

\* the raw values that are converted
MaxRaw == 24

\* $name::from(v) and $name::convert_from(v)
ConvertRaw(e, v) ==
    /\ Fresh
    /\ result' = Codec("from", e.name, [enum |-> e, raw |-> v], <<>>,
                       enum_from(e, v), convert_from(e, v))
    /\ UNCHANGED <<sequence_next, sent, queue, requests, log>>

\* $ty::from(variant), then $name::from of that raw value
ConvertVariant(e, variant) ==
    /\ Fresh
    /\ result' = Codec("into", e.name, [enum |-> e, variant |-> variant], <<>>,
                       enum_from(e, enum_into(e, variant)), enum_into(e, variant))
    /\ UNCHANGED <<sequence_next, sent, queue, requests, log>>

\* DataMessage::pack after the data was written: &mut slice[padding..]
DataMessage_pack_padding(message, b) ==
    IF b.kind # "ok" THEN Packed("err", b.buffer, 0)
    ELSE IF Len(b.buffer) - b.pos < netlink_padding(message.header.length)
    THEN Packed("panic", b.buffer, 0)
    ELSE Packed("ok", b.buffer, b.pos + netlink_padding(message.header.length))

\* DataMessage::pack after the header was written
DataMessage_pack_data(message, a) ==
    IF a.kind # "ok" THEN Packed("err", a.buffer, 0)
    ELSE DataMessage_pack_padding(message, pack(message.data, a.buffer, a.pos))

\* DataMessage::pack(&self, buffer): header, data, each with `?`, then the
\* padding of the header's length is skipped
DataMessage_pack(message, buffer) ==
    DataMessage_pack_data(message, pack(HeaderPack(message.header), buffer, 0))

\* data messages as DataMessage::unpack builds them: the header's length is
\* the header size plus the length of the data
DataMessages ==
    {[header |-> [length |-> HEADER_SIZE + Len(data), identifier |-> 4096, flags |-> 16,
                  sequence |-> 305419896, pid |-> 1],
      data |-> data] : data \in ByteSeqsUpTo({85, 170}, MaxPairData) \cup {<<17, 170, 85, 0, 1>>}}

\* DataMessage::pack into a destination of `size` bytes
PackData(message, size) ==
    /\ Fresh
    /\ result' = Codec("DataMessage::pack", "DataMessage", message, Filled(size),
                       DataMessage_pack(message, Filled(size)), 0)
    /\ UNCHANGED <<sequence_next, sent, queue, requests, log>>

\* bytes of the buffers nested_attribute_array is applied to
MaxNested == 9

\* the loop of nested_attribute_array; &d[4..size] panics when size < 4
RECURSIVE nested_loop(_, _)
nested_loop(d, attrs) ==
    IF Len(d) > 2 * 2
    THEN LET size == U16At(d, 0)
         IN  IF Len(d) > size
             THEN IF size < 2 * 2
                  THEN [kind |-> "panic", lists |-> attrs]
                  ELSE LET a == unpack_all(SubSeq(d, 2 * 2 + 1, size))
                       IN  IF a.panic
                           THEN [kind |-> "panic", lists |-> attrs]
                           ELSE nested_loop(SliceFrom(d, size), Append(attrs, a.attrs))
             ELSE [kind |-> "ok", lists |-> attrs]
    ELSE [kind |-> "ok", lists |-> attrs]

\* nested_attribute_array
nested_attribute_array(data) == nested_loop(data, <<>>)

\* a frame of a nested array: size (header included), index, attributes
NestedFrame(index, attrs) ==
    LET payload == pack_vec(attrs)
    IN  U16Bytes(Len(payload) + 2 * 2) \o U16Bytes(index) \o payload

\* buffers made of two frames, with and without a byte after them
NestedBuffers ==
    LET lists == {<<>>, <<new_u16(1, 258)>>, <<new_u16(1, 258), new_string(2, <<97>>)>>}
    IN  {NestedFrame(1, a) \o NestedFrame(2, b) \o rest :
             a \in lists, b \in lists, rest \in {<<>>, <<0>>}}

\* nested_attribute_array on a buffer
NestedArray(buffer) ==
    /\ Fresh
    /\ result' = Codec("nested_attribute_array", "bytes", <<>>, buffer,
                       nested_attribute_array(buffer), 0)
    /\ UNCHANGED <<sequence_next, sent, queue, requests, log>>

\* one codec call, on a fresh state
NextCodec ==
    \/ Fresh /\ \E e \in Enums, v \in 0..MaxRaw : ConvertRaw(e, v)
    \/ Fresh /\ \E e \in Enums : \E variant \in 1..Len(e.values) : ConvertVariant(e, variant)
    \/ Fresh /\ \E T \in Packable : \E v \in Values(T) :
                   \E size \in 0..(Len(pack_unchecked(T, v)) + MaxExtra) : Pack(T, v, size)
    \/ Fresh /\ \E T \in Unpackable : \E buffer \in Buffers(T) : Unpack(T, buffer)
    \/ Fresh /\ \E buffer \in ByteSeqsUpTo({0, 4, 5}, MaxBuffer) : UnpackAll(buffer)
    \/ Fresh /\ \E first \in PairAttributes, second \in PairAttributes,
                   cut \in 0..(netlink_align(MaxPairData + ATTRIBUTE_HEADER_SIZE) - 1) :
                    UnpackPair(first, second, cut)
    \/ Fresh /\ \E attr \in Attributes,
                   size \in 0..(netlink_align(MaxData + ATTRIBUTE_HEADER_SIZE) + 1) :
                    PackAttribute(attr, size)
    \/ Fresh /\ PackAttribute([identifier |-> 4096, data |-> LongData], 65536)
    \/ Fresh /\ \E buffer \in ByteSeqsUpTo({0, 4, 8}, MaxNested) \cup NestedBuffers :
                   NestedArray(buffer)
    \/ Fresh /\ \E message \in DataMessages :
                   \E size \in 0..(netlink_align(Len(message.data) + HEADER_SIZE) + MaxExtra) :
                       PackData(message, size)

SpecCodec == Init /\ [][NextCodec]_vars

-----------------------------------------------------------------------------
(* Properties of the codecs *)

\* n rounded up to the next multiple of four
Align4(n) == ((n + 3) \div 4) * 4

RoundTrip ==
    /\ result.op = "Attribute::pack"
    /\ Len(result.buffer) >= Align4(4 + Len(result.value.data))

\* C11: serializing an attribute with a payload of 0..65531 bytes into a
\* destination that is large enough and parsing that destination with
\* Attribute::unpack_with_size gives back the identifier and the payload, and a
\* consumed size of the attribute's length rounded up to four.
C11_AttributeRoundTrip ==
    RoundTrip =>
        /\ result.out.kind = "ok"
        /\ result.back.kind = "ok"
        /\ result.back.used = Align4(4 + Len(result.value.data))
        /\ result.back.attr = result.value
        /\ result.out.pos = result.back.used

\* C11 witness: a three-byte payload comes back, with one byte of padding counted
C11_Witness ==
    /\ RoundTrip
    /\ Len(result.value.data) = 3
    /\ result.back.kind = "ok"
    /\ result.back.used = 8
    /\ result.back.attr = result.value

RECURSIVE Leading(_, _)
\* the attributes that Attribute::unpack_with_size decodes one after the other
\* from offset pos of the buffer, up to the first one it does not decode
Leading(buffer, pos) ==
    LET r == AttributeUnpack(SliceFrom(buffer, pos))
    IN  IF r.kind = "ok" THEN <<r.attr>> \o Leading(buffer, pos + r.used) ELSE <<>>

UnpackAllCall == result.op = "Attribute::unpack_all" /\ result.type = "bytes"

\* C12: Attribute::unpack_all returns for every buffer, without a panic: it
\* gives the leading attributes that decode, and a consumed size that does not
\* exceed the buffer; an attribute that is truncated or malformed (fewer than 4
\* bytes left, a length beyond the buffer, a length below 4) ends the list.
C12_UnpackAllLenient ==
    UnpackAllCall =>
        /\ result.out.kind = "ok"
        /\ result.out.used <= Len(result.buffer)
        /\ result.out.attrs = Leading(result.buffer, 0)

\* C12 witness: a second attribute whose length reaches beyond the buffer ends
\* the list after the first one
C12_Witness ==
    /\ UnpackAllCall
    /\ result.out.kind = "ok"
    /\ Len(result.out.attrs) = 1
    /\ result.out.used = 4
    /\ Len(result.buffer) = 8
    /\ U16At(result.buffer, 4) = 5

PaddedLength(attr) == Align4(4 + Len(attr.data))

UnpackPairCall == result.op = "Attribute::unpack_all" /\ result.type = "attributes"

\* C13: Attribute::unpack_all on a buffer made of two well-formed attributes
\* returns both, in order, and the sum of their padded lengths; when the second
\* one is truncated it returns the first one only and its padded length.
C13_UnpackAllPair ==
    UnpackPairCall =>
        /\ result.out.kind = "ok"
        /\ result.back = 0 =>
               /\ result.out.attrs = result.value
               /\ result.out.used =
                      PaddedLength(result.value[1]) + PaddedLength(result.value[2])
        /\ result.back > 0 =>
               /\ result.out.attrs = <<result.value[1]>>
               /\ result.out.used = PaddedLength(result.value[1])

\* C13 witness: two attributes with padding are both returned
C13_Witness ==
    /\ UnpackPairCall
    /\ result.back = 0
    /\ Len(result.value[1].data) = 3
    /\ Len(result.value[2].data) = 1
    /\ result.out.attrs = result.value
    /\ result.out.used = 16

\* C13 in the truncated case: only the padding of the second attribute is cut
C13_Truncated ==
    /\ UnpackPairCall
    /\ result.back = 1
    /\ Len(result.value[2].data) = 3
    /\ result.out.attrs = <<result.value[1]>>

\* the number of bytes of a value of each type
Width(T) ==
    CASE T \in {"u8", "i8"} -> 1
      [] T \in {"u16", "i16"} -> 2
      [] T \in {"u32", "i32"} -> 4
      [] T \in {"u64", "i64"} -> 8
      [] T = "HardwareAddress" -> 6
      [] T = "Header" -> 16

PackedThenUnpacked ==
    result.op = "pack" /\ result.type \in Unpackable /\ result.out.kind = "ok"

UnpackedThenPacked == result.op = "unpack" /\ result.out.kind = "ok"

\* C14: for the fixed-width integer types, HardwareAddress and Header, a value
\* that was packed unpacks to the same value, and the value unpacked from a
\* buffer packs to the bytes it was read from.
C14_PackUnpackRoundTrip ==
    /\ PackedThenUnpacked =>
           /\ result.back.kind = "ok"
           /\ result.back.value = result.value
    /\ UnpackedThenPacked =>
           result.back = SubSeq(result.buffer, 1, Width(result.type))

\* C14 witness: an i64 with only the sign bit set is packed and comes back
C14_Witness ==
    /\ PackedThenUnpacked
    /\ result.type = "i64"
    /\ result.value = <<0, 0, 0, 32768>>
    /\ result.out.buffer[8] = 128
    /\ result.back.value = result.value

\* C14 for bytes: an all-one pattern unpacks to a u64 that packs to the same bytes
C14_BytesWitness ==
    /\ UnpackedThenPacked
    /\ result.type = "u64"
    /\ result.buffer = <<255, 255, 255, 255, 255, 255, 255, 255>>
    /\ result.back = result.buffer

\* the unsigned number that the `n` bytes at offset o spell, low byte first
\* (n <= 2, or n = 4 with a last byte below 128)
RECURSIVE LowFirst(_, _, _)
LowFirst(buffer, o, n) ==
    IF n = 0 THEN 0 ELSE buffer[o + 1] + 256 * LowFirst(buffer, o + 1, n - 1)

\* C15: unpacking a fixed-width type or a Header fails with NotEnoughData
\* exactly when the buffer is shorter than the type; otherwise it succeeds,
\* consumes the size of the type, does not look at bytes beyond it, and a
\* Header has length at offset 0, type at 4, flags at 6, sequence at 8, pid at 12.
C15_UnpackSize ==
    (result.op = "unpack" /\ result.type \in Types \cup {"Header"}) =>
        /\ Len(result.buffer) < Width(result.type) =>
               /\ result.out.kind = "err"
               /\ result.out.err = NetlinkError("NotEnoughData")
        /\ Len(result.buffer) >= Width(result.type) =>
               /\ result.out.kind = "ok"
               /\ result.out.used = Width(result.type)
               /\ result.out.value =
                      unpack_unchecked(result.type,
                                       SubSeq(result.buffer, 1, Width(result.type)))
               /\ result.type = "Header" =>
                      /\ result.out.value.length = LowFirst(result.buffer, 0, 4)
                      /\ result.out.value.identifier = LowFirst(result.buffer, 4, 2)
                      /\ result.out.value.flags = LowFirst(result.buffer, 6, 2)
                      /\ result.out.value.sequence = LowFirst(result.buffer, 8, 4)
                      /\ result.out.value.pid = LowFirst(result.buffer, 12, 4)

\* C15 witness: a header followed by one more byte is unpacked from 16 bytes
C15_Witness ==
    /\ result.op = "unpack"
    /\ result.type = "Header"
    /\ Len(result.buffer) = 17
    /\ result.out.kind = "ok"
    /\ result.out.used = 16
    /\ result.out.value.identifier = 513
    /\ result.out.value.flags = 65535

\* C15 in the failing case: 15 bytes are not a header
C15_Short ==
    /\ result.op = "unpack"
    /\ result.type = "Header"
    /\ Len(result.buffer) = 15
    /\ result.out.kind = "err"

PackCall == result.op \in {"pack", "Attribute::pack"}

\* the bytes the packed value occupies on the wire
WireSize ==
    IF result.op = "Attribute::pack" THEN Align4(4 + Len(result.value.data))
    ELSE IF result.type = "Vec<u8>" THEN Len(result.value)
    ELSE Width(result.type)

\* C16: packing a value into a destination that is shorter than the value on
\* the wire (for an attribute: header, payload and padding) returns
\* NotEnoughData and changes no byte of the destination; packing into a
\* destination that is large enough returns the destination after the value.
C16_PackAllOrNothing ==
    PackCall =>
        /\ Len(result.buffer) < WireSize =>
               /\ result.out.kind = "err"
               /\ result.out.buffer = result.buffer
        /\ Len(result.buffer) >= WireSize =>
               /\ result.out.kind = "ok"
               /\ result.out.pos = WireSize

\* C16 witness: a u32 does not fit three bytes, which are left as they were
C16_Witness ==
    /\ result.op = "pack"
    /\ result.type = "u32"
    /\ Len(result.buffer) = 3
    /\ result.out.kind = "err"
    /\ result.out.buffer = result.buffer

FromCall == result.op = "from"

Listed(e, v) == \E i \in 1..Len(e.values) : e.values[i] = v

\* C17: for the enums of both macros, From of a raw value never fails: a raw
\* value of a variant gives that variant and any other raw value gives the
\* first listed variant; convert_from gives Some(variant) for the raw value of
\* a variant and None otherwise; a variant turned into its raw value and back
\* is the same variant.
C17_EnumConversions ==
    /\ FromCall =>
           LET e == result.value.enum
               v == result.value.raw
           IN  /\ result.out.kind = "ok"
               /\ Listed(e, v) => e.values[result.out.variant] = v
               /\ ~Listed(e, v) => result.out.variant = 1
               /\ result.back.some = Listed(e, v)
               /\ result.back.some => e.values[result.back.variant] = v
    /\ result.op = "into" =>
           /\ result.out.kind = "ok"
           /\ result.out.variant = result.value.variant

\* C17 witness: Command::from(12) is the first variant, Unspecified, and
\* Command::convert_from(12) is None
C17_Witness ==
    /\ FromCall
    /\ result.type = "generic::Command"
    /\ result.value.raw = 12
    /\ result.out.kind = "ok"
    /\ result.out.variant = 1
    /\ ~result.back.some

-----------------------------------------------------------------------------
(* The demultiplexer on datagrams that carry Data records with any flags,    *)
(* several records with different continuation signals, and NOOP records     *)

\* header flags of Data records: no flag, MULTIPART alone and with REQUEST, with
\* NLM_F_DUMP_INTR (0x10), with every known flag, with bit 15, all bits, and
\* NLM_F_DUMP_INTR alone
FlagValues ==
    {0, MULTIPART, REQUEST + MULTIPART, MULTIPART + 16,
     REQUEST + MULTIPART + ACKNOWLEDGE + DUMP, MULTIPART + 32768, 65535, 16}

\* a NOOP record whose header declares `extra` bytes after the header
NoopOf(extra) ==
    Record(HEADER_SIZE + extra, NLMSG_NOOP, 0, 0, 0, [i \in 1..extra |-> 0])

\* bytes a NOOP record carries after its header
MaxNoop == 4

SignalBursts ==
    LET D(s) == DataRec(s, IF s = 0 THEN 0 ELSE LocalPid, 0)
        M(s) == DataRec(s, IF s = 0 THEN 0 ELSE LocalPid, MULTIPART)
        Last == {D(0), M(0), D(1), DoneRec(1, LocalPid), ErrorRec(1, LocalPid, 0)}
    IN  {<<Datagram(<<x, y>>), Datagram(<<D(0)>>)>> : x \in {D(0), M(0), D(1)}, y \in Last}

NoopBursts ==
    LET D(s) == DataRec(s, IF s = 0 THEN 0 ELSE LocalPid, 0)
        M(s) == DataRec(s, IF s = 0 THEN 0 ELSE LocalPid, MULTIPART)
    IN  UNION { { <<Datagram(<<NoopOf(n)>>)>>,
                  <<Datagram(<<NoopOf(n), D(0)>>)>>,
                  <<Datagram(<<D(1), NoopOf(n), DoneRec(1, LocalPid)>>)>>,
                  <<Datagram(<<M(0), NoopOf(n)>>), Datagram(<<D(0)>>)>> } :
                n \in {0, MaxNoop} }

DemuxBursts ==
    {<<Datagram(<<DataRec(s, LocalPid, f)>>)>> : s \in {0, 1}, f \in FlagValues}
        \cup SignalBursts \cup NoopBursts

NextDemux ==
    \/ \E payload \in Payloads : Send(payload, 0)
    \/ \E arrived \in Arrivals(DemuxBursts), checked \in BOOLEAN :
           ReceiveMessages(arrived, checked)

SpecDemux == Init /\ [][NextDemux]_vars

-----------------------------------------------------------------------------
(* Properties of the demultiplexer *)

DemuxCall == result.op = "receive_messages"

\* the pending mode of a sequence asks for more records
Awaited(map, sequence) ==
    /\ sequence # 0
    /\ sequence \in DOMAIN map
    /\ map[sequence] \in {"Acknowledge", "Dump"}

\* bit 0x0002 of a 16-bit flags value
MultipartSet(flags) == (flags \div 2) % 2 = 1

\* C18: a Data record that passed the pid and sequence checks signals "more
\* expected" exactly when MULTIPART (0x0002) is set in its header flags or its
\* sequence is not 0 and pending in mode Acknowledge or Dump, whatever other
\* bits its flags carry.
C18_DataSignal ==
    DemuxCall =>
        \A i \in 1..Len(result.trace) :
            result.trace[i].outcome = "data" =>
                result.trace[i].more =
                    (MultipartSet(result.trace[i].header.flags)
                        \/ Awaited(result.trace[i].pending,
                                   result.trace[i].header.sequence))

\* C18 witness: an unsolicited Data record with MULTIPART alone signals more,
\* and one without MULTIPART for a request pending in mode Dump does so as well
C18_Witness ==
    /\ DemuxCall
    /\ Len(result.trace) = 1
    /\ result.trace[1].outcome = "data"
    /\ result.trace[1].header.flags = 0
    /\ result.trace[1].header.sequence = 1
    /\ result.trace[1].pending[1] = "Dump"
    /\ result.trace[1].more
    /\ result.reads = 2

\* the number of the datagram (1, 2, ..) that entry i of the trace belongs to:
\* every datagram is scanned from cursor 0
DatagramOf(i) == Cardinality({j \in 1..i : result.trace[j].pos = 0})

\* a record of datagram k signaled "more expected"
SignaledIn(k) ==
    \E i \in 1..Len(result.trace) :
        /\ DatagramOf(i) = k
        /\ result.trace[i].outcome = "data"
        /\ result.trace[i].more

\* C19: a receive_messages call that succeeds read a further datagram after a
\* datagram it demultiplexed exactly when at least one record of that datagram
\* signaled "more expected".
C19_ReadsWhileSignaled ==
    (DemuxCall /\ result.kind = "ok") =>
        \A k \in 1..DatagramOf(Len(result.trace)) :
            (result.reads > k) <=> SignaledIn(k)

\* C19 witness: a datagram whose last record signals more is followed by a
\* further read, and the call ends after a datagram in which no record does
C19_Witness ==
    /\ DemuxCall
    /\ result.kind = "ok"
    /\ result.reads = 2
    /\ Len(result.trace) = 3
    /\ SignaledIn(1)
    /\ ~SignaledIn(2)
    /\ Len(result.msgs) = 3

IsNoop(rec) == rec.header.identifier = NLMSG_NOOP

HasNoop(q) ==
    \E i \in 1..Len(q) :
        q[i].kind = "dgram" /\ \E j \in 1..Len(q[i].recs) : IsNoop(q[i].recs[j])

\* the queue without its NOOP records
Strip(q) ==
    [i \in 1..Len(q) |->
        IF q[i].kind = "dgram"
        THEN Datagram(SelectSeq(q[i].recs, LAMBDA rec : ~IsNoop(rec)))
        ELSE q[i]]

\* the call r gave what the last call gave: the result, the messages, the
\* pending map and the queue
SameOutcome(r) ==
    /\ r.out.kind = result.kind
    /\ r.out.err = result.err
    /\ r.out.msgs = result.msgs
    /\ r.sent = sent
    /\ r.queue = queue

\* the last call is the call r, record by record
SameCall(r) == SameOutcome(r) /\ r.out.trace = result.trace

\* C20: a NOOP record adds no message, changes no pending entry and leaves the
\* continuation signal as it was, and a call on datagrams with NOOP records
\* gives what the same call gives on those datagrams without the NOOP records,
\* whatever length the NOOP headers declare.
C20_NoopSkipped ==
    (DemuxCall /\ HasNoop(result.input)) =>
        /\ \A i \in 1..Len(result.trace) :
               result.trace[i].outcome = "noop" =>
                   /\ result.trace[i].more = result.trace[i].was
                   /\ i < Len(result.trace) =>
                          /\ result.trace[i + 1].pending = result.trace[i].pending
                          /\ result.trace[i + 1].count = result.trace[i].count
        /\ \A checked \in BOOLEAN :
               SameCall(receive_messages(result.input, checked, result.pending)) =>
                   SameOutcome(receive_messages(Strip(result.input), checked,
                                                result.pending))

\* C20 witness: a NOOP record of 16 bytes between a Data record and the DONE
\* record of a dump is skipped
C20_Witness ==
    /\ DemuxCall
    /\ result.kind = "ok"
    /\ Len(result.trace) = 3
    /\ result.trace[2].outcome = "noop"
    /\ result.trace[2].header.length = HEADER_SIZE
    /\ result.trace[3].outcome = "done"
    /\ Len(result.msgs) = 1
    /\ SameOutcome(receive_messages(Strip(result.input), TRUE, result.pending))

-----------------------------------------------------------------------------
(* Properties of send_message as a whole *)

\* the last call was send_message
SendCall == result.op = "send"

\* C21: every send call, whether it returns success or an error, increases
\* sequence_next by exactly one and leaves exactly one new pending entry, for
\* the sequence it allocated; a send whose write fails keeps its entry.
C21_SendMutates ==
    SendCall =>
        /\ sequence_next = result.first + 1
        /\ result.first \notin DOMAIN result.pending
        /\ DOMAIN sent = DOMAIN result.pending \cup {result.first}
        /\ \A k \in DOMAIN result.pending : sent[k] = result.pending[k]

\* C21 witness: a send whose write failed left its sequence pending
C21_Witness ==
    /\ SendCall
    /\ result.kind = "err"
    /\ result.err = OsError(111)
    /\ sequence_next = result.first + 1
    /\ result.first \in DOMAIN sent
    /\ result.first \notin DOMAIN result.pending

-----------------------------------------------------------------------------
(* The sequence counter at its full width *)

\* sequence_next is a u32; the model gives the counter this many bits
SequenceBits == 2

\* the largest value the counter holds (u32::MAX in the code)
MaxSequence == 2^SequenceBits - 1

\* self.sequence_next += 1 on the fixed-width counter, next being the sum: with
\* overflow checks the addition panics, without them the value wraps
sequence_add(next, checked) ==
    IF next <= MaxSequence
    THEN [panic |-> FALSE, value |-> next]
    ELSE IF checked
         THEN [panic |-> TRUE, value |-> next - 1]
         ELSE [panic |-> FALSE, value |-> next % (MaxSequence + 1)]

\* requests that ask for an acknowledgment
AckPayloads == {p \in Payloads : p.size = 4 /\ p.flags = ModeFlags("Acknowledge")}

\* a caller sends a request on a socket whose counter has SequenceBits bits
SendCounted(payload, sys, checked) ==
    /\ Alive
    /\ LET r == send_message(sequence_next, sent, payload, sys)
           n == sequence_add(r.sequence_next, checked)
       IN  /\ sequence_next' = n.value
           /\ sent' = r.sent
           /\ result' = Called(IF n.panic THEN [r.out EXCEPT !.kind = "panic"] ELSE r.out,
                               queue, sent, sequence_next)
    /\ UNCHANGED <<queue, requests, log>>

\* the kernel's answers to the requests: an acknowledgment of any sequence
AckBursts ==
    { <<Datagram(<<ErrorRec(s, LocalPid, 0)>>)>> : s \in 0..MaxSequence }

NextCounted ==
    \/ \E payload \in AckPayloads, checked \in BOOLEAN : SendCounted(payload, 0, checked)
    \/ \E arrived \in Arrivals(AckBursts) : Receive(arrived)
    \/ \E arrived \in Arrivals(AckBursts), checked \in BOOLEAN :
           ReceiveMessages(arrived, checked)

SpecCounted == Init /\ [][NextCounted]_vars

\* C22: the counter is strictly increasing and no send allocates sequence 0 or a
\* sequence that is still a key of the pending map, the send made when the
\* counter holds its largest value included.
C22_FreshSequences ==
    (SendCall /\ Allocated) =>
        /\ result.kind # "panic"
        /\ sequence_next > result.first
        /\ result.header.sequence # 0
        /\ result.header.sequence \notin DOMAIN result.pending

\* C22 witness: below the largest value, a send took sequence 2 while 1 was
\* still pending and left the counter at 3
C22_Witness ==
    /\ SendCall
    /\ Allocated
    /\ result.kind = "ok"
    /\ result.header.sequence = 2
    /\ DOMAIN result.pending = {1}
    /\ DOMAIN sent = {1, 2}
    /\ sequence_next = 3

-----------------------------------------------------------------------------
(* Properties of nested_attribute_array *)

RECURSIVE LeadingFrames(_)
\* one attribute list for every leading frame of d whose declared size does not
\* exceed the bytes that remain, up to the first position where fewer than 8
\* bytes remain or the declared size exceeds them (a size that does not cover
\* the frame's own header ends the list as well)
LeadingFrames(d) ==
    IF Len(d) < 8 THEN <<>>
    ELSE LET size == U16At(d, 0)
         IN  IF size > Len(d) \/ size < 4 THEN <<>>
             ELSE <<Leading(SubSeq(d, 5, size), 0)>> \o LeadingFrames(SliceFrom(d, size))

NestedCall == result.op = "nested_attribute_array"

\* C23: nested_attribute_array returns, in order, one attribute list for every
\* leading frame whose declared size does not exceed the bytes remaining (a last
\* frame that ends exactly at the end of the buffer included), stops where
\* fewer than 8 bytes remain or the size exceeds them, and fails for no buffer.
C23_NestedArray ==
    NestedCall =>
        /\ result.out.kind = "ok"
        /\ result.out.lists = LeadingFrames(result.buffer)

\* C23 witness: two frames followed by one more byte, both decoded, the first
\* with two attributes and the second with one
C23_Witness ==
    /\ NestedCall
    /\ result.out.kind = "ok"
    /\ result.out.lists = LeadingFrames(result.buffer)
    /\ Len(result.out.lists) = 2
    /\ Len(result.out.lists[1]) = 2
    /\ Len(result.out.lists[2]) = 1
    /\ result.out.lists[2][1] = new_u16(1, 258)

-----------------------------------------------------------------------------
(* Properties of the header's derived lengths *)

\* the records of the call that passed the pid and sequence checks, so that
\* unpack_data dispatched on their type
Dispatched(trace) ==
    {i \in 1..Len(trace) :
         trace[i].outcome \notin {"bad_header", "bad_pid", "bad_sequence"}}

\* n is the least multiple of four that is at least m
LeastMultiple(n, m) == n % 4 = 0 /\ n >= m /\ n - m < 4

\* C24: every header receive_messages dispatches on has length >= 16, so its
\* data_length = length - 16 is not negative, its aligned_data_length is the
\* least multiple of 4 that is >= data_length, and the padding of its length
\* lies in 0..3.
C24_HeaderLength ==
    ReceiveCall =>
        \A i \in Dispatched(result.trace) :
            LET h == result.trace[i].header
            IN  /\ h.length >= HEADER_SIZE
                /\ data_length(h) = h.length - 16
                /\ data_length(h) >= 0
                /\ LeastMultiple(aligned_data_length(h), data_length(h))
                /\ netlink_padding(h.length) = Align4(h.length) - h.length
                /\ netlink_padding(h.length) \in 0..3

\* C24 witness: a Data record of length 18 was decoded: data_length 2,
\* aligned_data_length 4, padding 2
C24_Witness ==
    /\ ReceiveCall
    /\ \E i \in Dispatched(result.trace) :
           LET h == result.trace[i].header
           IN  /\ result.trace[i].outcome = "data"
               /\ h.length = 18
               /\ data_length(h) = 2
               /\ aligned_data_length(h) = 4
               /\ netlink_padding(h.length) = 2
               /\ result.trace[i].next = result.trace[i].pos + 16 + 4

-----------------------------------------------------------------------------
(* The demultiplexer on records that are longer or shorter than their header *)
(* declares                                                                  *)

\* bytes that follow the header of such a record
MaxBody == 5

\* n payload bytes, all different
BodyOf(n) == [i \in 1..n |-> 16 + i]

\* header lengths of the Data records: below the header size, the header alone,
\* and payloads of 1 and 4 bytes
DataLengths == {12, 15, HEADER_SIZE, 17, 20}

\* a Data record whose header declares `length`, followed by n bytes
DataOf(sequence, length, n) ==
    Record(length, GENL_ID_CTRL, 0, sequence, IF sequence = 0 THEN 0 ELSE LocalPid,
           BodyOf(n))

\* an ERROR record for request `sequence` of which only the first n bytes
\* after the header arrived
ErrorOf(sequence, code, n) ==
    LET rec == ErrorRec(sequence, LocalPid, code)
    IN  [rec EXCEPT !.body = SliceTo(rec.body, n)]

RecordBursts ==
    {<<Datagram(<<DataOf(s, l, n)>>)>> : s \in {0, 1}, l \in DataLengths, n \in 0..MaxBody}
    \cup {<<Datagram(<<DataOf(0, l, n), DataRec(0, 0, 0)>>)>> :
              l \in DataLengths, n \in 0..MaxBody}
    \cup {<<Datagram(<<DataRec(0, 0, 0), ErrorOf(1, code, n)>>)>> :
              code \in {0, -1}, n \in {0, 4, 19, 20}}
    \cup {<<Datagram(<<DoneRec(1, LocalPid), DataOf(2, 20, 3)>>)>>}

NextRecords ==
    \/ \E payload \in AckPayloads : Send(payload, 0)
    \/ \E arrived \in Arrivals(RecordBursts), checked \in BOOLEAN :
           ReceiveMessages(arrived, checked)

SpecRecords == Init /\ [][NextRecords]_vars

-----------------------------------------------------------------------------
(* Properties of the demultiplexer on such records *)

\* the bytes of the datagram that entry i of the trace belongs to
BytesOf(i) == Wire(result.input[DatagramOf(i)].recs)

\* the records unpack_data handed to Message::unpack
DataEntries(trace) ==
    {i \in Dispatched(trace) :
         trace[i].header.identifier \notin {NLMSG_NOOP, NLMSG_ERROR, NLMSG_DONE}}

\* C25: DataMessage::unpack on a header h and the bytes b after it fails exactly
\* when b is shorter than align4(h.data_length), and then receive_messages
\* fails; otherwise it consumes align4(h.data_length) bytes and the message
\* holds the first h.data_length bytes of b, without the padding.
C25_DataUnpack ==
    ReceiveCall =>
        \A i \in DataEntries(result.trace) :
            LET e == result.trace[i]
                h == e.header
                b == SliceFrom(BytesOf(i), e.pos + HEADER_SIZE)
                need == Align4(h.length - HEADER_SIZE)
            IN  IF Len(b) < need
                THEN /\ e.outcome = "bad_data"
                     /\ result.kind = "err"
                     /\ result.err = UnexpectedEof
                ELSE /\ e.outcome = "data"
                     /\ e.next = e.pos + HEADER_SIZE + need
                     /\ result.kind = "ok" =>
                            result.msgs[e.count + 1] =
                                [header |-> h,
                                 data |-> SubSeq(b, 1, h.length - HEADER_SIZE)]

\* C25 witness: a record with 1 payload byte and 3 bytes of padding was decoded
\* to a message of 1 byte and the record after it was decoded as well
C25_Witness ==
    /\ ReceiveCall
    /\ result.kind = "ok"
    /\ Len(result.trace) = 2
    /\ result.trace[1].outcome = "data"
    /\ result.trace[1].header.length = 17
    /\ result.trace[1].next = 20
    /\ result.trace[2].outcome = "data"
    /\ Len(result.msgs) = 2
    /\ result.msgs[1].data = <<17>>
    /\ result.msgs[2].data = <<17, 85>>

\* a record that claims more than the datagram carries failed the whole call
C25_Short ==
    /\ ReceiveCall
    /\ result.kind = "err"
    /\ result.err = UnexpectedEof
    /\ Len(result.trace) = 1
    /\ result.trace[1].outcome = "bad_data"
    /\ result.trace[1].header.length = 20
    /\ Len(BytesOf(1)) = HEADER_SIZE + 3

-----------------------------------------------------------------------------
(* Properties of Attribute::pack and DataMessage::pack *)

FramePackCall == result.op \in {"Attribute::pack", "DataMessage::pack"}

\* the header bytes of the packed value and its payload
FrameHeader ==
    IF result.op = "Attribute::pack"
    THEN U16Bytes(ATTRIBUTE_HEADER_SIZE + Len(result.value.data))
             \o U16Bytes(result.value.identifier)
    ELSE HeaderPack(result.value.header)

FramePayload == result.value.data

\* C26: packing an attribute with payload p into a buffer of at least
\* align4(4 + |p|) bytes writes the u16 length 4 + |p|, the u16 identifier and
\* the bytes of p, changes neither the padding bytes nor any later byte, and
\* returns the buffer from offset align4(4 + |p|); the same for a data message
\* with its 16-byte header.
C26_PackFrame ==
    LET written == Len(FrameHeader) + Len(FramePayload)
    IN  (FramePackCall /\ Len(result.buffer) >= Align4(written)) =>
            /\ result.out.kind = "ok"
            /\ result.out.pos = Align4(written)
            /\ SubSeq(result.out.buffer, 1, written) = FrameHeader \o FramePayload
            /\ Len(result.out.buffer) = Len(result.buffer)
            /\ \A i \in (written + 1)..Len(result.buffer) :
                   result.out.buffer[i] = result.buffer[i]

\* C26 witness: an attribute with 1 byte of payload in a buffer of 9 bytes: 5
\* bytes written, 3 bytes of padding and 1 more byte as they were
C26_Witness ==
    /\ result.op = "Attribute::pack"
    /\ result.value = [identifier |-> 4096, data |-> <<255>>]
    /\ result.out.kind = "ok"
    /\ result.out.pos = 8
    /\ result.out.buffer = <<5, 0, 0, 16, 255, Fill, Fill, Fill, Fill>>

\* a data message with 2 bytes of payload: 18 bytes written, 2 bytes of
\* padding and 1 more byte as they were
C26_DataWitness ==
    /\ result.op = "DataMessage::pack"
    /\ result.value.data = <<170, 85>>
    /\ result.out.kind = "ok"
    /\ result.out.pos = 20
    /\ Len(result.out.buffer) = 21
    /\ SubSeq(result.out.buffer, 1, 4) = <<18, 0, 0, 0>>
    /\ SubSeq(result.out.buffer, 17, 21) = <<170, 85, Fill, Fill, Fill>>

-----------------------------------------------------------------------------
(* The resolvers on replies that describe families whose multicast groups    *)
(* come without an id, and on Data messages of other families                *)

\* a multicast group as the kernel describes it: with its id as a u32
\* ("full"), with an id of two bytes ("short_id") or with no id ("no_id")
GroupKinds == {"full", "short_id", "no_id"}

GroupOf(kind, id) == [id |-> id, name |-> <<100 + id>>, kind |-> kind]

\* the attributes of one group: its name and, depending on the kind, its id
GroupData(g) ==
    AttributePack(new_string(MulticastAttributeId_Name, Append(g.name, 0)))
        \o (IF g.kind = "full"
            THEN AttributePack([identifier |-> MulticastAttributeId_Id,
                                data |-> U32Bytes(g.id)])
            ELSE IF g.kind = "short_id"
            THEN AttributePack(new_u16(MulticastAttributeId_Id, g.id))
            ELSE <<>>)

\* the payload of a controller message for family f with the groups f.groups
GroupsPayload(f) ==
    GenericPack(Command_NewFamily, 2,
        <<new_string(AttributeId_FamilyName, Append(f.name, 0)),
          new_u16(AttributeId_FamilyId, f.id),
          [identifier |-> AttributeId_MulticastGroups,
           data |-> pack_vec([i \in 1..Len(f.groups) |->
                                 [identifier |-> i, data |-> GroupData(f.groups[i])]])]>>)

\* families with one or two groups of every kind, and with family id 0
GroupFamilies ==
    LET lists == {<<GroupOf(k, 5)>> : k \in GroupKinds}
                 \cup {<<GroupOf(k, 5), GroupOf(l, 6)>> : k \in GroupKinds, l \in GroupKinds}
    IN  [id : {0, 21}, name : {<<113>>}, groups : lists]

GroupsRec(sequence, flags, f) ==
    LET body == GroupsPayload(f)
    IN  Record(HEADER_SIZE + Len(body), GENL_ID_CTRL, flags, sequence, LocalPid, body)

\* message types of Data messages that do not come from the controller: 4
\* (NLMSG_OVERRUN), the ids of other families and values no family has
ForeignIds == {4, 15, 17, 18, 19, 21, 4096, 65535}

\* a message of type `identifier` that carries the description of Quota
ForeignRec(sequence, flags, identifier) ==
    LET body == FamilyPayload(Command_NewFamily, Quota)
    IN  Record(HEADER_SIZE + Len(body), identifier, flags, sequence, LocalPid, body)

\* the answers to a lookup: the description of a family and the acknowledgment,
\* with or without a message of another type before the description
GroupLookupReply(s, f) == <<Datagram(<<GroupsRec(s, 0, f), ErrorRec(s, LocalPid, 0)>>)>>

ForeignLookupReply(s, identifier) ==
    <<Datagram(<<ForeignRec(s, 0, identifier),
                 FamilyRec(s, LocalPid, 0, Command_NewFamily, Nlctrl),
                 ErrorRec(s, LocalPid, 0)>>)>>

FamilyLookupReplies(s) ==
    {GroupLookupReply(s, f) : f \in GroupFamilies}
        \cup {ForeignLookupReply(s, i) : i \in ForeignIds}

\* the answers to a dump
GroupDumpReply(s, f) == <<Datagram(<<GroupsRec(s, MULTIPART, f), DoneRec(s, LocalPid)>>)>>

ForeignDumpReply(s, identifier) ==
    <<Datagram(<<ForeignRec(s, MULTIPART, identifier),
                 FamilyRec(s, LocalPid, MULTIPART, Command_NewFamily, Nlctrl),
                 DoneRec(s, LocalPid)>>)>>

FamilyDumpReplies(s) ==
    {GroupDumpReply(s, f) : f \in GroupFamilies}
        \cup {ForeignDumpReply(s, i) : i \in ForeignIds}

NextFamily ==
    \/ \E name \in {<<113>>, Nlctrl.name}, checked \in BOOLEAN :
           \E reply \in FamilyLookupReplies(sequence_next) :
               FromName(name, 0, reply, checked)
    \/ \E id \in {21, Nlctrl.id}, checked \in BOOLEAN :
           \E reply \in FamilyLookupReplies(sequence_next) :
               FromId(id, 0, reply, checked)
    \/ \E checked \in BOOLEAN :
           \E reply \in FamilyDumpReplies(sequence_next) :
               All(0, reply, checked)

SpecFamily == Init /\ [][NextFamily]_vars

-----------------------------------------------------------------------------
(* Properties of the resolvers on such replies *)

\* the Family the description of f decodes to when the groups that come
\* without a u32 id are left out
Kept(f) ==
    LET groups == SelectSeq(f.groups, LAMBDA g : g.kind = "full")
    IN  [id |-> f.id, name |-> f.name,
         multicast_groups |-> [i \in 1..Len(groups) |->
                                  [id |-> groups[i].id, name |-> groups[i].name]]]

\* the call was a lookup of family f (by its name or id), or a dump, and the
\* kernel answered with the description of f
AnsweredWith(f) ==
    \/ /\ result.op = "from_name"
       /\ result.data = GenericPack(Command_GetFamily, 1,
                                    <<new_string(AttributeId_FamilyName, f.name)>>)
       /\ result.input = GroupLookupReply(result.first, f)
    \/ /\ result.op = "from_id"
       /\ result.data = GenericPack(Command_GetFamily, 1,
                                    <<new_u16(AttributeId_FamilyId, f.id)>>)
       /\ result.input = GroupLookupReply(result.first, f)
    \/ /\ result.op = "all"
       /\ result.input = GroupDumpReply(result.first, f)

\* C27: a group without an id attribute, or with an id that does not decode as
\* u32, is dropped silently: the Family holds the other groups in order and the
\* decode and the resolver call succeed; the Family is reported only if its
\* family id is > 0, otherwise the result is NotFound.
C27_GroupsDropped ==
    \A f \in GroupFamilies :
        AnsweredWith(f) =>
            IF f.id > 0
            THEN /\ result.kind = "ok"
                 /\ result.found = <<Kept(f)>>
            ELSE /\ result.kind = "err"
                 /\ result.err = IoError("NotFound")

\* C27 witness: a family with two groups that both have an id was looked up by
\* name and reported with both groups
C27_Witness ==
    \E f \in GroupFamilies :
        /\ AnsweredWith(f)
        /\ result.op = "from_name"
        /\ f.id = 21
        /\ Len(f.groups) = 2
        /\ result.kind = "ok"
        /\ result.found = <<Kept(f)>>
        /\ Len(result.found[1].multicast_groups) = 2

\* a family with id 0 is not reported
C27_NotFound ==
    \E f \in GroupFamilies :
        /\ AnsweredWith(f)
        /\ f.id = 0
        /\ result.kind = "err"
        /\ result.err = IoError("NotFound")

\* the call was answered with a message of type `identifier` that is not the
\* controller's, followed by the description of Nlctrl
ForeignAnswer(identifier) ==
    \/ /\ result.op \in {"from_name", "from_id"}
       /\ result.input = ForeignLookupReply(result.first, identifier)
    \/ /\ result.op = "all"
       /\ result.input = ForeignDumpReply(result.first, identifier)

\* the call asked for Nlctrl, by name or by id, or for all families
AskedForNlctrl ==
    \/ /\ result.op = "from_name"
       /\ result.data = GenericPack(Command_GetFamily, 1,
                                    <<new_string(AttributeId_FamilyName, Nlctrl.name)>>)
    \/ /\ result.op = "from_id"
       /\ result.data = GenericPack(Command_GetFamily, 1,
                                    <<new_u16(AttributeId_FamilyId, Nlctrl.id)>>)
    \/ result.op = "all"

\* C30: from_name, from_id and all skip every Data message whose type is not
\* the controller family id 16, whatever 16-bit value it is, without failing:
\* the message contributes no Family and the messages after it are processed.
C30_ForeignSkipped ==
    \A identifier \in ForeignIds :
        ForeignAnswer(identifier) =>
            IF AskedForNlctrl
            THEN /\ result.kind = "ok"
                 /\ result.found = <<Nlctrl>>
            ELSE /\ result.kind = "err"
                 /\ result.err = IoError("NotFound")
                 /\ result.found = <<>>

\* C30 witness: from_name skipped a message of type 65535 and returned the
\* family described after it
C30_Witness ==
    /\ result.op = "from_name"
    /\ ForeignAnswer(65535)
    /\ AskedForNlctrl
    /\ result.kind = "ok"
    /\ result.found = <<Nlctrl>>
    /\ Len(result.batches) = 1
    /\ Len(result.batches[1]) = 2

-----------------------------------------------------------------------------
(* Properties of a receive_messages call that fails on a record *)

\* the call ended on a record whose body could not be decoded: an ERROR record
\* followed by fewer than 20 bytes, or a Data record that is shorter than its
\* header declares
UndecodedCall ==
    /\ ReceiveCall
    /\ result.trace # <<>>
    /\ LastEntry.outcome \in {"bad_error", "bad_data"}

\* C29: when a record cannot be decoded, receive_messages fails and the
\* pending map is what it was before that record was processed: the sequence
\* of the failing record is still pending.
C29_FailureKeepsPending ==
    UndecodedCall =>
        /\ result.kind = "err"
        /\ sent = LastEntry.pending
        /\ LastEntry.header.sequence \in DOMAIN LastEntry.pending =>
               LastEntry.header.sequence \in DOMAIN sent

\* C29 witness: a Data record for the pending request 1 that declares 4 bytes
\* and carries 3 failed the call, and request 1 is still pending
C29_Witness ==
    /\ UndecodedCall
    /\ LastEntry.outcome = "bad_data"
    /\ LastEntry.header.sequence = 1
    /\ LastEntry.header.length = 20
    /\ result.kind = "err"
    /\ result.err = UnexpectedEof
    /\ 1 \in DOMAIN LastEntry.pending
    /\ sent = LastEntry.pending

-----------------------------------------------------------------------------
(* Invariant of the pending map and the counter *)

\* the call read nothing: receive(), or a receive_messages call whose first
\* read returned zero bytes
ReadOnlyCall ==
    \/ result.op = "receive"
    \/ /\ ReceiveCall
       /\ result.reads = 1
       /\ result.input = <<>>

\* C28: in every reachable state sequence_next >= 1 and every key k of the
\* pending map satisfies 1 <= k < sequence_next: the map only holds sequence
\* numbers a send allocated and never key 0; receive() and zero-byte reads
\* change neither the pending map nor sequence_next.
C28_PendingAllocated ==
    /\ sequence_next >= 1
    /\ \A k \in DOMAIN sent : 1 <= k /\ k < sequence_next
    /\ ReadOnlyCall =>
           /\ sent = result.pending
           /\ sequence_next = result.first

\* C28 witness: with requests 1 and 2 pending and the counter at 3, a receive()
\* that returned a datagram changed neither
C28_Witness ==
    /\ result.op = "receive"
    /\ result.kind = "ok"
    /\ result.value > 0
    /\ DOMAIN sent = {1, 2}
    /\ sequence_next = 3
    /\ sent = result.pending
    /\ sequence_next = result.first

=============================================================================
